---- MODULE Spec2Model ----
(***************************************************************************)
(* Download orchestration of yt-downloader.                                *)
(*                                                                         *)
(*  - the retrying handler  (src/unnamed/part_000: executeDownload, POST)  *)
(*    with its helpers     (src/unnamed/part_001: createTimeoutController, *)
(*    killProcessWithTimeout, getFallbackFormat, validateDownloadedFile)   *)
(*  - the single-attempt handler (src/app/api/download/route.ts: POST,     *)
(*    DELETE, cleanupDownload)                                             *)
(*  - the progress store (updateProgress / clearProgress)                  *)
(*                                                                         *)
(* One request of each handler is modelled.  Every callback of the source  *)
(* (a timer, a stream event, a child process event, the continuation of an *)
(* await) is one action.  The subprocess is a black box: while it is alive *)
(* it may print a chunk of diagnostic text, write its output file, or      *)
(* exit.                                                                   *)
(***************************************************************************)
EXTENDS Integers, Sequences, FiniteSets, TLC

\* ------------------------------------------------------------------ bounds

\* chunks of diagnostic text one subprocess prints
MaxChunks == 1

\* chunks the file stream of the single-attempt handler delivers
MaxFileChunks == 2

\* lines of diagnostic text the subprocess of the single-attempt handler prints
MaxLines == 2
MaxCallers == 2
MaxLive == 3
MaxClock == 2
MaxDownloads == 2
MaxKills == 2

\* ---------------------------------------------------------------- constants

MAX_RETRIES == 3

MIN_FILE_SIZE == 1024

MIN_AUDIO_SIZE == 1024

MIN_VIDEO_SIZE == 10240

Attempts == 1..MAX_RETRIES

\* a temp path is identified by the order in which getTempFilePath made it
NoPath == 0

Paths == 1..(MAX_RETRIES + 1)

\* size of an output file on disk; Absent: no file at the path
Absent == -1

FileSizes == {50, 20000}

\* sizes of the output file of the single-attempt handler
RouteFileSizes == {50, 2000, 20000}

\* ------------------------------------------------------- selection formats

\* the request bodies: formatId, hasVideo, filesize
\* (body.filesize || body.filesizeApprox || null, 0 standing for null)
Requests ==
    { [formatId |-> "bestvideo+bestaudio", hasVideo |-> TRUE,  filesize |-> 20000],
      [formatId |-> "best[height<=720]",   hasVideo |-> TRUE,  filesize |-> 0],
      [formatId |-> "best[height<=480]",   hasVideo |-> TRUE,  filesize |-> 20000],
      [formatId |-> "bestaudio",           hasVideo |-> FALSE, filesize |-> 0] }

fallbackFormats ==
    <<"best[height<=720]", "best[height<=480]", "best[height<=360]", "best">>

Min(a, b) == IF a < b THEN a ELSE b

Max(a, b) == IF a > b THEN a ELSE b

\* getFallbackFormat with the index off by one
getFallbackFormat_offByOne(attempt, originalFormat) ==
    IF attempt = 0
    THEN originalFormat
    ELSE fallbackFormats[Min(attempt, Len(fallbackFormats) - 1) + 1]

\* fallbacks[Math.min(attempt - 1, fallbacks.length - 1)], 0-based in the source
getFallbackFormat(attempt, originalFormat) ==
    IF attempt = 0
    THEN originalFormat
    ELSE fallbackFormats[Min(attempt - 1, Len(fallbackFormats) - 1) + 1]

\* ------------------------------------------------------ diagnostic text

\* the chunks of diagnostic text a subprocess may print
StderrChunks ==
    { "[download]  50.0%",
      "ERROR: [youtube] Sign in to confirm you're not a bot",
      "ERROR: Frag 3: No such file or directory" }

\* the messages of a child process 'error' event
SpawnErrors ==
    { "spawn yt-dlp ENOENT", "spawn /srv/network/bin/yt-dlp EACCES" }

\* the needles the source searches for, as they occur (case-folded) in a text
Needles(text) ==
    CASE text = "Connection timeout - server not responding" -> {"timeout"}
      [] text = "Download timed out"                          -> {"timed out"}
      [] text = "Download timed out. Try a lower quality format." -> {"timed out"}
      [] text = "Bot detection"                               -> {"bot"}
      [] text = "spawn /srv/network/bin/yt-dlp EACCES"        -> {"network"}
      [] text = "ERROR: [youtube] Sign in to confirm you're not a bot"
                                                              -> {"bot", "sign in", "[youtube]"}
      [] text = "ERROR: Frag 3: No such file or directory"
                                                              -> {"Frag", "No such file or directory"}
      [] text = "[Merger] Merging formats"                    -> {"[Merger]"}
      [] text = "[download]  50.0%"                           -> {"[download] %"}
      [] OTHER                                                -> {}

\* errorOutput is the set of chunks accumulated so far
NeedlesOf(output) == UNION { Needles(t) : t \in output }

isTimeoutError(error) ==
    Needles(error) \cap {"timeout", "timed out", "etimedout", "econnreset", "socket hang up"} # {}

isNetworkError(error) ==
    Needles(error) \cap {"network", "enotfound", "econnrefused", "econnreset", "socket", "dns"} # {}

\* @/lib/ytdlp: the diagnostic text shows an access block
isBotDetectionError(output) ==
    NeedlesOf(output) \cap {"bot", "sign in"} # {}

\* @/lib/ytdlp: a message for the diagnostic text, '' when it knows none
getErrorMessage(output) ==
    IF "bot" \in NeedlesOf(output) THEN "Bot detection" ELSE ""

\* parseProgress of the retrying handler: <<progress, phase>>, or <<>> for null
parseProgress(text) ==
    IF "[download] %" \in Needles(text) THEN <<45, "downloading">>
    ELSE IF "[Merger]" \in Needles(text) THEN <<92, "merging">>
    ELSE IF "[youtube]" \in Needles(text) THEN <<2, "extracting">>
    ELSE <<>>

\* ---------------------------------------------------------- file validation

\* sizeRatio < SIZE_TOLERANCE_MIN || sizeRatio > SIZE_TOLERANCE_MAX  (0.5, 2.0),
\* with sizeRatio = fileSize / expectedSize
outsideTolerance(fileSize, expected) ==
    2 * fileSize < expected \/ fileSize > 2 * expected

\* the drastic test made with the tolerance band
drasticallyDifferent_tolerance(fileSize, expected) ==
    2 * fileSize < expected \/ fileSize > 2 * expected

\* sizeRatio < 0.1 || sizeRatio > 5.0
drasticallyDifferent(fileSize, expected) ==
    10 * fileSize < expected \/ fileSize > 5 * expected

\* validateDownloadedFile; warned: the size mismatch warning was logged
validateDownloadedFile(fileSize, expected, isAudioOnly, headerReadable) ==
    LET minSize == IF isAudioOnly THEN 512 ELSE MIN_FILE_SIZE IN
    IF fileSize = Absent
    THEN [isValid |-> FALSE, fileSize |-> 0, error |-> "File does not exist", warned |-> FALSE]
    ELSE IF fileSize < minSize
    THEN [isValid |-> FALSE, fileSize |-> fileSize, error |-> "File too small", warned |-> FALSE]
    ELSE IF expected > 0
    THEN IF outsideTolerance(fileSize, expected) /\ drasticallyDifferent(fileSize, expected)
         THEN [isValid |-> FALSE, fileSize |-> fileSize, error |-> "Size mismatch", warned |-> TRUE]
         ELSE [isValid |-> TRUE, fileSize |-> fileSize, error |-> "",
               warned |-> outsideTolerance(fileSize, expected)]
    ELSE IF ~headerReadable
    THEN [isValid |-> FALSE, fileSize |-> fileSize, error |-> "Read error", warned |-> FALSE]
    ELSE [isValid |-> TRUE, fileSize |-> fileSize, error |-> "", warned |-> FALSE]

\* ------------------------------------------------------------------ state

VARIABLES
    \* --- the retrying handler: POST
    pc,                 \* position of POST
    attempt,            \* loop variable
    requestedFormatId,
    hasVideo,
    expectedSize,
    formatId,           \* the expression of the current iteration
    lastError,
    lastIsBotDetection,
    lastIsTimeout,
    usedFallback,
    tempFile,           \* the path the current iteration writes to
    response,           \* what POST returned
    progressStore,      \* downloadProgressStore.get(clientDownloadId)
    activeDownloads,    \* the attempt whose process activeDownloads holds, 0: no entry
    disk,               \* size of the file at each temp path
    currentCookiePath,  \* "null", "provider" (the cached file) or "fallback"
    \* --- the retrying handler: one executeDownload call per attempt
    childProcess,       \* "none", "running", "spawnfail", "errored", "exited"
    receivedData,
    connectTimeout,     \* "unset", "armed", "cleared", "fired"
    timeoutController,  \* [timer, isAborted]
    errorOutput,
    chunks,             \* number of chunks printed
    killSent,           \* killProcessWithTimeout has signalled the process
    result,             \* what the promise resolved with
    exitCode,           \* the code of the 'close' event: "0", "1", "null" (signal), "-2" (spawn failure)
    normalExit,         \* 'close' came with code 0, no timer had gone off, the file was there and valid
    attemptFormat,      \* the expression the attempt was spawned with
    attemptFile,        \* the path the attempt was spawned with
    \* --- the single-attempt handler: POST, DELETE
    spc,                \* position of POST
    isAudioOnly,
    hasClientId,        \* the body carries clientDownloadId: progressId # downloadId
    sProc,              \* proc: "none", "running", "spawnfail", "errored", "exited"
    sKilled,            \* proc.killed
    sTimeout,           \* the overall timer: "unset", "armed", "cleared", "fired"
    sResult,            \* downloadResult
    sErrorOutput,
    sLastProgress,      \* lastProgress
    sChunks,            \* number of chunks printed
    sExitCode,          \* the code of the 'close' event
    sFile,              \* size of the file at tempFile
    sCookiePath,        \* cookiePath is a path (not null)
    sCookies,           \* cookiePath: "null", "provider" (the cached file) or "fallback"
    sCookieFile,        \* the file at cookiePath exists
    sActive,            \* activeDownloads.has(downloadId)
    sProgress,          \* downloadProgressStore.get(progressId)
    sPublished,         \* the updateProgress calls so far: [n, max, complete, last, failed]
    sResponse,          \* what POST returned
    sStream,            \* fileStream: "none", "open", "ended", "errored", "destroyed"
    sRead,              \* chunks the file stream has emitted
    sEnqueued,          \* chunks enqueued to the response
    sDeleteTriggered,   \* deleteTempFile(tempFile) has been called
    sUnlinks,           \* unlinkSync calls on tempFile
    sDeletedRunning,    \* a DELETE was served while the subprocess was running
    \* --- one call of validateDownloadedFile
    vFileSize,          \* stats.size of the file at filePath
    vExpectedSize,      \* expectedSize, 0 for null
    vIsAudioOnly,
    vHeaderReadable,    \* quickValidateHeader can open and read the file
    vResult             \* the ValidationResult, NoValidation before the call

retryVars ==
    << pc, attempt, requestedFormatId, hasVideo, expectedSize, formatId, lastError,
       lastIsBotDetection, lastIsTimeout, usedFallback, tempFile, response,
       progressStore, activeDownloads, disk, currentCookiePath >>

execVars ==
    << childProcess, receivedData, connectTimeout, timeoutController, errorOutput,
       chunks, killSent, result, exitCode, normalExit, attemptFormat, attemptFile >>

singleVars ==
    << spc, isAudioOnly, hasClientId, sProc, sKilled, sTimeout, sResult, sErrorOutput,
       sLastProgress, sChunks, sExitCode, sFile, sCookiePath, sCookieFile, sActive,
       sCookies, sProgress, sPublished, sResponse, sStream, sRead, sEnqueued, sDeleteTriggered,
       sUnlinks, sDeletedRunning >>

callVars == << vFileSize, vExpectedSize, vIsAudioOnly, vHeaderReadable, vResult >>

\* the cookies cache of yt-dlp-utils and the calls of getCachedCookies under way
VARIABLES
    cookiesCache,       \* tempPath, isValid, and whether lastFetch is older than the TTL
    cookieFiles,        \* the cookie files on disk
    cookieWrites,       \* the files written so far: each write gets a new name
    callers             \* per caller: where its call is, and the path it was given

cookieVars == << cookiesCache, cookieFiles, cookieWrites, callers >>

\* the temp paths given to the attempts that are live, over all requests
VARIABLES
    now,                \* Date.now()
    livePaths           \* per attempt slot: the path its attempt was given, or NoName

pathVars == << now, livePaths >>

\* several downloads of the single-attempt handler and the DELETE requests for them
VARIABLES
    dl,                 \* per download: its activeDownloads entry, subprocess, files, progress
    cookieDisk,         \* the cookie files on disk
    cachePath,          \* cookiesCache.tempPath
    lastOp              \* the DELETE request the last step served, if it served one

cancelVars == << dl, cookieDisk, cachePath, lastOp >>

\* one run of the single-attempt handler's format selection
VARIABLES
    fFormat,            \* format of the request body
    fQuality,           \* quality of the request body
    fExt,               \* ext of the request body
    fArgs               \* what was chosen: audio-only or not, and the -f chain

formatVars == << fFormat, fQuality, fExt, fArgs >>

\* calls of killProcessWithTimeout, each on a process of its own
VARIABLES
    kPid,               \* process.pid is set
    kSignal,            \* the signal argument
    kProc,              \* the process: "none" (never started), "running", "closed"
    kTimer,             \* the setTimeout of the call: "unset", "armed", "cleared", "fired"
    kListener,          \* the once('close') listener is registered and has not run
    kEvents,            \* in order: the kill calls made on the process, and its close
    kPromise            \* the returned promise: "none", "pending", "resolved"

killVars == << kPid, kSignal, kProc, kTimer, kListener, kEvents, kPromise >>

vars == << retryVars, execVars, singleVars, callVars, cookieVars, pathVars, cancelVars, formatVars, killVars >>

\* ---------------------------------------------------------- progress store

NoEntry == [progress |-> -1, phase |-> "none"]

\* updateProgress: the given fields over the existing entry
updateProgress(store, progress, phase) == [progress |-> progress, phase |-> phase]

\* --------------------------------------------------- timers and promises

Pending ==
    [resolved |-> FALSE, success |-> FALSE, error |-> "", isBotDetection |-> FALSE,
     isTimeout |-> FALSE, isNetworkIssue |-> FALSE]

Resolved(success, error, bot, timeout, network) ==
    [resolved |-> TRUE, success |-> success, error |-> error, isBotDetection |-> bot,
     isTimeout |-> timeout, isNetworkIssue |-> network]

\* resolve() of an already settled promise changes nothing
resolve(old, new) == IF old.resolved THEN old ELSE new

\* clearTimeout
clearTimeout(timer) == IF timer = "armed" THEN "cleared" ELSE timer

\* abort that cancels the timer and leaves the flag as it was
abort_flagKept(controller) ==
    [timer |-> clearTimeout(controller.timer), isAborted |-> controller.isAborted]

\* createTimeoutController(...).abort
abort(controller) ==
    [timer |-> clearTimeout(controller.timer), isAborted |-> TRUE]

\* the setTimeout callback of createTimeoutController
onTimer(controller) == [timer |-> "fired", isAborted |-> TRUE]

\* deleteTempFile
deleteTempFile(d, filePath) ==
    IF filePath = NoPath THEN d ELSE [d EXCEPT ![filePath] = Absent]

NoResponse ==
    [kind |-> "none", status |-> 0, error |-> "", isBotDetection |-> FALSE,
     isTimeout |-> FALSE, suggestion |-> "", attempt |-> 0, format |-> ""]

\* ------------------------------------------------------------------- Init

RetryInit(bodies) ==
    /\ pc = "start"
    /\ attempt = 1
    /\ \E body \in bodies :
        /\ requestedFormatId = body.formatId
        /\ hasVideo = body.hasVideo
        /\ expectedSize = body.filesize
    /\ formatId = ""
    /\ lastError = ""
    /\ lastIsBotDetection = FALSE
    /\ lastIsTimeout = FALSE
    /\ usedFallback = FALSE
    /\ tempFile = NoPath
    /\ response = NoResponse
    /\ progressStore = NoEntry
    /\ activeDownloads = 0
    /\ disk = [p \in Paths |-> Absent]
    /\ currentCookiePath = "null"
    /\ childProcess = [a \in Attempts |-> "none"]
    /\ receivedData = [a \in Attempts |-> FALSE]
    /\ connectTimeout = [a \in Attempts |-> "unset"]
    /\ timeoutController = [a \in Attempts |-> [timer |-> "unset", isAborted |-> FALSE]]
    /\ errorOutput = [a \in Attempts |-> {}]
    /\ chunks = [a \in Attempts |-> 0]
    /\ killSent = [a \in Attempts |-> FALSE]
    /\ result = [a \in Attempts |-> Pending]
    /\ exitCode = [a \in Attempts |-> "none"]
    /\ normalExit = [a \in Attempts |-> FALSE]
    /\ attemptFormat = [a \in Attempts |-> ""]
    /\ attemptFile = [a \in Attempts |-> NoPath]

SingleInit(audio, client) ==
    /\ spc = "start"
    /\ isAudioOnly \in audio
    /\ hasClientId \in client
    /\ sProc = "none"
    /\ sKilled = FALSE
    /\ sTimeout = "unset"
    /\ sResult = [resolved |-> FALSE, success |-> FALSE, error |-> ""]
    /\ sErrorOutput = {}
    /\ sLastProgress = 0
    /\ sChunks = 0
    /\ sExitCode = "none"
    /\ sFile = Absent
    /\ sCookiePath = FALSE
    /\ sCookieFile = FALSE
    /\ sCookies = "null"
    /\ sActive = FALSE
    /\ sProgress = NoEntry
    /\ sPublished = [n |-> 0, max |-> 0, complete |-> FALSE, last |-> 0, failed |-> FALSE]
    /\ sResponse = [kind |-> "none", error |-> ""]
    /\ sStream = "none"
    /\ sRead = 0
    /\ sEnqueued = 0
    /\ sDeleteTriggered = FALSE
    /\ sUnlinks = 0
    /\ sDeletedRunning = FALSE

\* the retrying handler serves one request; no request reaches the other handler
NoValidation == [isValid |-> FALSE, fileSize |-> Absent, error |-> "none", warned |-> FALSE]

\* file sizes around the floors and around the ratios 0.1, 0.5, 2.0, 5.0 of 10240
ValidatedSizes ==
    {50, 511, 512, 1023, 1024, 5119, 5120, 20480, 20481, 51200, 51201}

\* expected sizes; 0: none given
ValidatedExpected == {0, 5120, 10240, 10250}

\* the arguments of one call of validateDownloadedFile
CallInit(sizes, expected, audio, readable) ==
    /\ vFileSize \in sizes
    /\ vExpectedSize \in expected
    /\ vIsAudioOnly \in audio
    /\ vHeaderReadable \in readable
    /\ vResult = NoValidation

NoCall == CallInit({Absent}, {0}, {FALSE}, {TRUE})

\* the callers of getCachedCookies
Callers == 1..MaxCallers

EmptyCache == [tempPath |-> NoPath, isValid |-> FALSE, expired |-> FALSE]

\* what a call of getCachedCookies gave its caller: kind "cache" is fromCache
\* true, "fallback" is usedFallback true, "threw" is createFallbackCookies
\* failing to write its file; forced is the forceRefresh argument
NotCalled == [pc |-> "idle", path |-> NoPath, with |-> {}, kind |-> "none", forced |-> FALSE]

\* how the fetch and the write of the fetched file end
FetchResults == {"ok", "fetchFails", "writeFails"}

\* the cache as the module creates it, or as an earlier fetch left it
CookieInit(cached) ==
    /\ \E warm \in cached :
        /\ cookiesCache = IF warm THEN [tempPath |-> 1, isValid |-> TRUE, expired |-> FALSE]
                                  ELSE EmptyCache
        /\ cookieFiles = IF warm THEN {1} ELSE {}
        /\ cookieWrites = IF warm THEN 1 ELSE 0
    /\ callers = [c \in Callers |-> NotCalled]

NoCookieCalls == CookieInit({FALSE})

\* the attempts that can be live together, of whatever request
Slots == 1..MaxLive

\* the values Math.random().toString(36).substring(2, 10) can take
RandomIds == {"k3x9q2ab", "7fh20zpl"}

NoName == << >>

\* the request bodies the format selection is run on
Formats == {"", "best", "audio", "137", "22+140"}
Qualities == {"", "best", "bestp", "1080p", "720p", "480p", "audio-only"}
Exts == {"mp4", "mp3"}

NoArgs == [chosen |-> FALSE, isAudioOnly |-> FALSE, chain |-> << >>]

FormatInit(formats, qualities, exts) ==
    /\ fFormat \in formats
    /\ fQuality \in qualities
    /\ fExt \in exts
    /\ fArgs = NoArgs

NoFormatCall == FormatInit({""}, {""}, {"mp4"})

\* the calls of killProcessWithTimeout that can be pending together
Kills == 1..MaxKills

\* the graceful signals a caller may pass; 'SIGTERM' is the default
Signals == {"SIGTERM", "SIGINT"}

KillInit(pids, signals) ==
    /\ kPid \in [Kills -> pids]
    /\ kSignal \in [Kills -> signals]
    /\ kProc = [k \in Kills |-> IF kPid[k] THEN "running" ELSE "none"]
    /\ kTimer = [k \in Kills |-> "unset"]
    /\ kListener = [k \in Kills |-> FALSE]
    /\ kEvents = [k \in Kills |-> << >>]
    /\ kPromise = [k \in Kills |-> "none"]

NoKillCall == KillInit({TRUE}, {"SIGTERM"})

\* the downloads that can be in flight together
Downloads == 1..MaxDownloads

NotTracked ==
    [active |-> FALSE, proc |-> "none", killed |-> FALSE, file |-> Absent, unlinks |-> 0,
     triggered |-> FALSE, cookiePath |-> NoPath, progress |-> NoEntry]

NoOp == [op |-> "none", id |-> 0, found |-> FALSE]

CancelInit ==
    /\ dl = [d \in Downloads |-> NotTracked]
    /\ cookieDisk = {}
    /\ cachePath = NoPath
    /\ lastOp = NoOp

PathInit ==
    /\ now = 0
    /\ livePaths = [a \in Slots |-> NoName]

InitRetry == RetryInit(Requests) /\ SingleInit({FALSE}, {FALSE}) /\ NoCall /\ NoCookieCalls /\ PathInit /\ NoKillCall /\ NoFormatCall /\ CancelInit

\* the single-attempt handler serves one request; no request reaches the other handler
InitSingle == RetryInit({CHOOSE b \in Requests : b.formatId = "bestaudio"}) /\ SingleInit(BOOLEAN, BOOLEAN) /\ NoCall /\ NoCookieCalls /\ PathInit /\ NoKillCall /\ NoFormatCall /\ CancelInit

\* one call of validateDownloadedFile on an existing file; no request is served
InitValidate ==
    /\ RetryInit({CHOOSE b \in Requests : b.formatId = "bestaudio"})
    /\ SingleInit({FALSE}, {FALSE})
    /\ CallInit(ValidatedSizes, ValidatedExpected, BOOLEAN, BOOLEAN)
    /\ NoCookieCalls
    /\ PathInit
    /\ NoKillCall
    /\ NoFormatCall
    /\ CancelInit

\* concurrent calls of getCachedCookies; no request is served
InitCookies ==
    /\ RetryInit({CHOOSE b \in Requests : b.formatId = "bestaudio"})
    /\ SingleInit({FALSE}, {FALSE})
    /\ NoCall
    /\ CookieInit(BOOLEAN)
    /\ PathInit
    /\ NoKillCall
    /\ NoFormatCall
    /\ CancelInit

\* downloads of the single-attempt handler side by side; none is modelled
\* beyond its cleanup
InitCancel ==
    /\ RetryInit({CHOOSE b \in Requests : b.formatId = "bestaudio"})
    /\ SingleInit({FALSE}, {FALSE})
    /\ NoCall
    /\ NoCookieCalls
    /\ PathInit
    /\ NoKillCall
    /\ NoFormatCall
    /\ CancelInit

\* the format selection on one request body; no request is served
InitFormat ==
    /\ RetryInit({CHOOSE b \in Requests : b.formatId = "bestaudio"})
    /\ SingleInit({FALSE}, {FALSE})
    /\ NoCall
    /\ NoCookieCalls
    /\ PathInit
    /\ NoKillCall
    /\ CancelInit
    /\ FormatInit(Formats, Qualities, Exts)

\* attempts of several requests taking their temp paths; no request is modelled
\* beyond that
InitPaths ==
    /\ RetryInit({CHOOSE b \in Requests : b.formatId = "bestaudio"})
    /\ SingleInit({FALSE}, {FALSE})
    /\ NoCall
    /\ NoCookieCalls
    /\ PathInit
    /\ NoKillCall
    /\ NoFormatCall
    /\ CancelInit

\* calls of killProcessWithTimeout on processes with and without pid; no request
\* is served
InitKill ==
    /\ RetryInit({CHOOSE b \in Requests : b.formatId = "bestaudio"})
    /\ SingleInit({FALSE}, {FALSE})
    /\ NoCall
    /\ NoCookieCalls
    /\ PathInit
    /\ NoFormatCall
    /\ CancelInit
    /\ KillInit(BOOLEAN, Signals)

\* what a call of getCachedCookies does: return the cached or freshly fetched
\* file, return the fallback file, or throw
CookieOutcomes == {"provider", "fallback", "throws"}

\* the try block around getCachedCookies without its catch
cookiePathAfter_uncaught(outcome, previous) ==
    IF outcome = "throws" THEN "escaped" ELSE outcome

\* try { cookiePath = (await getCachedCookies()).tempPath } catch { log }
cookiePathAfter(outcome, previous) ==
    IF outcome = "throws" THEN previous ELSE outcome

\* how POST gets through the rate limit and the parsing of the request body:
\* it goes on, answers 429, answers 400, or request.json() throws
BeginOutcomes == {"ok", "rateLimited", "invalid", "throws"}

\* a try block of POST from which the exception goes on to the caller
catchBlock_rethrow(error) == [kind |-> "unhandled", error |-> error]

\* try { ... } catch (error) { cleanup; return the JSON failure }
catchBlock(error) == [kind |-> "json", error |-> error]

\* getTempFilePath: a name no earlier call returned (Date.now() and a random id)
getTempFilePath(previous) == previous + 1

\* ------------------------------------------- the retrying handler: POST

\* POST up to the retry loop
R_Begin ==
    /\ pc = "start"
    /\ \E outcome \in BeginOutcomes :
        IF outcome = "ok"
        THEN /\ tempFile' = getTempFilePath(NoPath)
             /\ progressStore' = updateProgress(progressStore, 0, "preparing")
             /\ pc' = "loop"
             /\ UNCHANGED response
        ELSE /\ response' =
                    IF outcome = "rateLimited"
                    THEN [NoResponse EXCEPT !.kind = "json", !.status = 429,
                                            !.error = "Too many requests. Please wait a moment."]
                    ELSE IF outcome = "invalid"
                    THEN [NoResponse EXCEPT !.kind = "json", !.status = 400,
                                            !.error = "Invalid request parameters"]
                    ELSE [NoResponse EXCEPT !.kind = catchBlock("Server error").kind,
                                            !.status = 500,
                                            !.error = catchBlock("Server error").error]
             /\ pc' = "done"
             /\ UNCHANGED << tempFile, progressStore >>
    /\ UNCHANGED << attempt, requestedFormatId, hasVideo, expectedSize, formatId, lastError,
                    lastIsBotDetection, lastIsTimeout, usedFallback,
                    activeDownloads, disk >>
    /\ UNCHANGED execVars
    /\ UNCHANGED currentCookiePath
    /\ UNCHANGED << singleVars, callVars, cookieVars, pathVars, cancelVars, formatVars, killVars >>

\* selectFormat falling back after a timeout only
selectFormat_timeoutOnly(n, requested, wasTimeout, error) ==
    IF n > 1 /\ wasTimeout
    THEN getFallbackFormat(n - 1, requested)
    ELSE requested

\* the expression of one iteration
selectFormat(n, requested, wasTimeout, error) ==
    IF n > 1 /\ (wasTimeout \/ error # "")
    THEN getFallbackFormat(n - 1, requested)
    ELSE requested

\* top of the loop body, up to `await getCachedCookies`
R_Loop ==
    /\ pc = "loop"
    /\ attempt <= MAX_RETRIES
    /\ LET fallback == attempt > 1 /\ (lastIsTimeout \/ lastError # "") IN
        /\ formatId' = selectFormat(attempt, requestedFormatId, lastIsTimeout, lastError)
        /\ usedFallback' = (usedFallback \/ fallback)
        /\ progressStore' = IF fallback
                            THEN updateProgress(progressStore, 2, "preparing")
                            ELSE progressStore
    /\ pc' = "cookies"
    /\ UNCHANGED << attempt, requestedFormatId, hasVideo, expectedSize, lastError,
                    lastIsBotDetection, lastIsTimeout, tempFile, response,
                    activeDownloads, disk >>
    /\ UNCHANGED execVars
    /\ UNCHANGED currentCookiePath
    /\ UNCHANGED << singleVars, callVars, cookieVars, pathVars, cancelVars, formatVars, killVars >>

\* after the cookies: the synchronous part of executeDownload (spawn, timers, handlers)
R_Spawn ==
    /\ pc = "cookies"
    /\ \E outcome \in CookieOutcomes, started \in BOOLEAN :
        LET path == cookiePathAfter(outcome, currentCookiePath) IN
        IF path = "escaped"
        THEN \* the catch block of POST
             /\ response' = [NoResponse EXCEPT !.kind = catchBlock("Server error").kind,
                                                !.status = 500,
                                                !.error = catchBlock("Server error").error,
                                                !.attempt = attempt]
             /\ disk' = deleteTempFile(disk, tempFile)
             /\ activeDownloads' = 0
             /\ pc' = "done"
             /\ UNCHANGED << currentCookiePath, progressStore, childProcess, timeoutController,
                             connectTimeout, attemptFormat, attemptFile >>
        ELSE /\ currentCookiePath' = path
             /\ childProcess' = [childProcess EXCEPT ![attempt] =
                                    IF started THEN "running" ELSE "spawnfail"]
             /\ progressStore' = updateProgress(progressStore, IF attempt > 1 THEN 5 ELSE 3, "preparing")
             /\ timeoutController' = [timeoutController EXCEPT ![attempt] =
                                         [timer |-> "armed", isAborted |-> FALSE]]
             /\ connectTimeout' = [connectTimeout EXCEPT ![attempt] = "armed"]
             /\ activeDownloads' = attempt
             /\ attemptFormat' = [attemptFormat EXCEPT ![attempt] = formatId]
             /\ attemptFile' = [attemptFile EXCEPT ![attempt] = tempFile]
             /\ pc' = "await"
             /\ UNCHANGED << response, disk >>
    /\ UNCHANGED << attempt, requestedFormatId, hasVideo, expectedSize, formatId, lastError,
                    lastIsBotDetection, lastIsTimeout, usedFallback, tempFile >>
    /\ UNCHANGED << receivedData, errorOutput, chunks, killSent, result, exitCode, normalExit >>
    /\ UNCHANGED << singleVars, callVars, cookieVars, pathVars, cancelVars, formatVars, killVars >>

\* killProcessWithTimeout escalates to SIGKILL 5 s after its signal, long before a
\* timer of a later attempt (45 s, 110 s) can go off
NoneBeingKilled(a) ==
    \A b \in Attempts \ {a} : ~(childProcess[b] = "running" /\ killSent[b])

\* killProcessWithTimeout sending no signal
killProcessWithTimeout_noSignal(sent, state) == sent

\* killProcessWithTimeout: a process without pid is left alone
killProcessWithTimeout(sent, state) == sent \/ state = "running"

\* childProcess.stderr.on('data')
StderrData(a, text) ==
    /\ childProcess[a] = "running"
    /\ chunks[a] < MaxChunks
    /\ chunks' = [chunks EXCEPT ![a] = @ + 1]
    /\ receivedData' = [receivedData EXCEPT ![a] = TRUE]
    /\ connectTimeout' = [connectTimeout EXCEPT ![a] = clearTimeout(@)]
    /\ errorOutput' = [errorOutput EXCEPT ![a] = @ \cup {text}]
    /\ progressStore' = IF parseProgress(text) # <<>>
                        THEN updateProgress(progressStore, parseProgress(text)[1], parseProgress(text)[2])
                        ELSE progressStore
    /\ UNCHANGED << pc, attempt, requestedFormatId, hasVideo, expectedSize, formatId, lastError,
                    lastIsBotDetection, lastIsTimeout, usedFallback, tempFile, response,
                    activeDownloads, disk >>
    /\ UNCHANGED << childProcess, timeoutController, killSent, result, exitCode, normalExit,
                    attemptFormat, attemptFile >>
    /\ UNCHANGED currentCookiePath
    /\ UNCHANGED << singleVars, callVars, cookieVars, pathVars, cancelVars, formatVars, killVars >>

\* childProcess.stdout.on('data')
StdoutData(a) ==
    /\ childProcess[a] = "running"
    /\ connectTimeout[a] = "armed"
    /\ receivedData' = [receivedData EXCEPT ![a] = TRUE]
    /\ connectTimeout' = [connectTimeout EXCEPT ![a] = clearTimeout(@)]
    /\ UNCHANGED retryVars
    /\ UNCHANGED << childProcess, timeoutController, errorOutput, chunks, killSent, result,
                    exitCode, normalExit, attemptFormat, attemptFile >>
    /\ UNCHANGED currentCookiePath
    /\ UNCHANGED << singleVars, callVars, cookieVars, pathVars, cancelVars, formatVars, killVars >>

\* the connect timer (CONNECT_TIMEOUT) goes off
ConnectTimeoutFires(a) ==
    /\ connectTimeout[a] = "armed"
    /\ childProcess[a] = "running"
    /\ NoneBeingKilled(a)
    /\ connectTimeout' = [connectTimeout EXCEPT ![a] = "fired"]
    /\ IF ~receivedData[a]
       THEN /\ timeoutController' = [timeoutController EXCEPT ![a] = abort(@)]
            /\ killSent' = [killSent EXCEPT ![a] = killProcessWithTimeout(@, childProcess[a])]
            /\ result' = [result EXCEPT ![a] =
                            resolve(@, Resolved(FALSE, "Connection timeout - server not responding",
                                                FALSE, TRUE, FALSE))]
       ELSE UNCHANGED << timeoutController, killSent, result >>
    /\ UNCHANGED retryVars
    /\ UNCHANGED << childProcess, receivedData, errorOutput, chunks, exitCode, normalExit,
                    attemptFormat, attemptFile >>
    /\ UNCHANGED currentCookiePath
    /\ UNCHANGED << singleVars, callVars, cookieVars, pathVars, cancelVars, formatVars, killVars >>

\* the timers of an attempt, in milliseconds
CONNECT_TIMEOUT == 45000
DOWNLOAD_TIMEOUT == 110000

\* the overall timer (DOWNLOAD_TIMEOUT) goes off; it is the later of the two timers
OverallTimeoutFires(a) ==
    /\ timeoutController[a].timer = "armed"
    /\ CONNECT_TIMEOUT < DOWNLOAD_TIMEOUT => connectTimeout[a] # "armed"
    /\ childProcess[a] = "running"
    /\ NoneBeingKilled(a)
    /\ timeoutController' = [timeoutController EXCEPT ![a] = onTimer(@)]
    /\ progressStore' = updateProgress(progressStore, 0, "timeout")
    /\ killSent' = [killSent EXCEPT ![a] = killProcessWithTimeout(@, childProcess[a])]
    /\ UNCHANGED << pc, attempt, requestedFormatId, hasVideo, expectedSize, formatId, lastError,
                    lastIsBotDetection, lastIsTimeout, usedFallback, tempFile, response,
                    activeDownloads, disk >>
    /\ UNCHANGED << childProcess, receivedData, connectTimeout, errorOutput, chunks, result,
                    exitCode, normalExit, attemptFormat, attemptFile >>
    /\ UNCHANGED currentCookiePath
    /\ UNCHANGED << singleVars, callVars, cookieVars, pathVars, cancelVars, formatVars, killVars >>

\* the subprocess creates its output file
ProcWrite(a, size) ==
    /\ childProcess[a] = "running"
    /\ disk[attemptFile[a]] = Absent
    /\ disk' = [disk EXCEPT ![attemptFile[a]] = size]
    /\ UNCHANGED << pc, attempt, requestedFormatId, hasVideo, expectedSize, formatId, lastError,
                    lastIsBotDetection, lastIsTimeout, usedFallback, tempFile, response,
                    progressStore, activeDownloads >>
    /\ UNCHANGED execVars
    /\ UNCHANGED currentCookiePath
    /\ UNCHANGED << singleVars, callVars, cookieVars, pathVars, cancelVars, formatVars, killVars >>

\* what the 'close' handler resolves with, and whether it published 'verifying'
closeOutcome(controller, output, code, size, validation) ==
    IF controller.isAborted
    THEN [result |-> Resolved(FALSE, "Download timed out", FALSE, TRUE, FALSE), verifying |-> FALSE]
    ELSE IF isBotDetectionError(output)
    THEN [result |-> Resolved(FALSE, "Bot detection", TRUE, FALSE, FALSE), verifying |-> FALSE]
    ELSE IF {"No such file or directory", "Frag"} \subseteq NeedlesOf(output)
    THEN [result |-> Resolved(FALSE, "Fragment error - retrying", FALSE, TRUE, FALSE), verifying |-> FALSE]
    ELSE IF code # "0"
    THEN LET errorMsg == IF getErrorMessage(output) # "" THEN getErrorMessage(output)
                         ELSE "Download failed" IN
         [result |-> Resolved(FALSE, errorMsg, FALSE, isTimeoutError(errorMsg), isNetworkError(errorMsg)),
          verifying |-> FALSE]
    ELSE IF size = Absent
    THEN [result |-> Resolved(FALSE, "File not found after download", FALSE, FALSE, FALSE),
          verifying |-> FALSE]
    ELSE IF ~validation.isValid /\ validation.fileSize < 1024
    THEN [result |-> Resolved(FALSE, validation.error, FALSE, FALSE, FALSE), verifying |-> TRUE]
    ELSE [result |-> Resolved(TRUE, "", FALSE, FALSE, FALSE), verifying |-> TRUE]

\* the codes a 'close' event can carry
CloseCodes(state, signalled) ==
    IF state = "errored" THEN {"-2"}
    ELSE IF signalled THEN {"0", "null"}
    ELSE {"0", "1"}

\* the subprocess exits: childProcess.on('close').  No handler of the attempt runs
\* after it, so the locals of its closure (receivedData, errorOutput) are dropped.
ProcClose(a, code, headerReadable) ==
    /\ childProcess[a] \in {"running", "errored"}
    /\ code \in CloseCodes(childProcess[a], killSent[a])
    /\ LET controller == abort(timeoutController[a])
           size == IF attemptFile[a] = NoPath THEN Absent ELSE disk[attemptFile[a]]
           validation == validateDownloadedFile(size, expectedSize, ~hasVideo, headerReadable)
           outcome == closeOutcome(controller, errorOutput[a], code, size, validation)
       IN /\ connectTimeout' = [connectTimeout EXCEPT ![a] = clearTimeout(@)]
          /\ timeoutController' = [timeoutController EXCEPT ![a] = controller]
          /\ activeDownloads' = 0
          /\ result' = [result EXCEPT ![a] = resolve(@, outcome.result)]
          /\ progressStore' = IF outcome.verifying
                              THEN updateProgress(progressStore, 95, "verifying")
                              ELSE progressStore
          /\ normalExit' = [normalExit EXCEPT ![a] =
                              /\ code = "0"
                              /\ connectTimeout[a] # "fired"
                              /\ timeoutController[a].timer # "fired"
                              /\ validation.isValid]
    /\ childProcess' = [childProcess EXCEPT ![a] = "exited"]
    /\ exitCode' = [exitCode EXCEPT ![a] = code]
    /\ UNCHANGED << pc, attempt, requestedFormatId, hasVideo, expectedSize, formatId, lastError,
                    lastIsBotDetection, lastIsTimeout, usedFallback, tempFile, response, disk >>
    /\ receivedData' = [receivedData EXCEPT ![a] = FALSE]
    /\ errorOutput' = [errorOutput EXCEPT ![a] = {}]
    /\ chunks' = [chunks EXCEPT ![a] = 0]
    /\ UNCHANGED << killSent, attemptFormat, attemptFile >>
    /\ UNCHANGED currentCookiePath
    /\ UNCHANGED << singleVars, callVars, cookieVars, pathVars, cancelVars, formatVars, killVars >>

\* the subprocess could not be spawned: childProcess.on('error')
ProcError(a, message) ==
    /\ childProcess[a] = "spawnfail"
    /\ childProcess' = [childProcess EXCEPT ![a] = "errored"]
    /\ connectTimeout' = [connectTimeout EXCEPT ![a] = clearTimeout(@)]
    /\ timeoutController' = [timeoutController EXCEPT ![a] = abort(@)]
    /\ activeDownloads' = 0
    /\ result' = [result EXCEPT ![a] =
                    resolve(@, Resolved(FALSE, message, FALSE, FALSE, isNetworkError(message)))]
    /\ UNCHANGED << pc, attempt, requestedFormatId, hasVideo, expectedSize, formatId, lastError,
                    lastIsBotDetection, lastIsTimeout, usedFallback, tempFile, response,
                    progressStore, disk >>
    /\ UNCHANGED << receivedData, errorOutput, chunks, killSent, exitCode, normalExit,
                    attemptFormat, attemptFile >>
    /\ UNCHANGED currentCookiePath
    /\ UNCHANGED << singleVars, callVars, cookieVars, pathVars, cancelVars, formatVars, killVars >>

\* retryable going on after every failure
retryable_always(r) == TRUE

\* retryable giving up after a timeout
retryable_exceptTimeout(r) == r.isBotDetection \/ r.isNetworkIssue

\* whether the loop goes on after a failed attempt
retryable(r) == r.isBotDetection \/ r.isTimeout \/ r.isNetworkIssue

\* POST after `await executeDownload`: the success response, or the failure handling
R_HandleResult ==
    /\ pc = "await"
    /\ result[attempt].resolved
    /\ LET r == result[attempt] IN
       IF r.success
       THEN /\ IF disk[tempFile] = Absent
               THEN \* fs.readFileSync throws: the catch block
                    /\ response' = [NoResponse EXCEPT !.kind = catchBlock("Server error").kind,
                                                       !.status = 500,
                                                       !.error = catchBlock("Server error").error,
                                                       !.attempt = attempt]
                    /\ progressStore' = updateProgress(progressStore, 97, "processing")
                    /\ activeDownloads' = 0
               ELSE /\ response' = [NoResponse EXCEPT !.kind = "artifact", !.status = 200,
                                                       !.attempt = attempt, !.format = formatId]
                    /\ progressStore' = updateProgress(progressStore, 100, "complete")
                    /\ UNCHANGED activeDownloads
            /\ disk' = deleteTempFile(disk, tempFile)
            /\ pc' = "done"
            /\ UNCHANGED << attempt, lastError, lastIsBotDetection, lastIsTimeout, tempFile >>
       ELSE /\ lastError' = IF r.error # "" THEN r.error ELSE "Unknown error"
            /\ lastIsBotDetection' = r.isBotDetection
            /\ lastIsTimeout' = r.isTimeout
            /\ disk' = deleteTempFile(disk, tempFile)
            /\ tempFile' = getTempFilePath(tempFile)
            /\ IF ~retryable(r)
               THEN /\ pc' = "failed"
                    /\ UNCHANGED attempt
               ELSE /\ attempt' = attempt + 1
                    /\ pc' = IF attempt + 1 <= MAX_RETRIES THEN "loop" ELSE "failed"
            /\ UNCHANGED << response, progressStore, activeDownloads >>
    /\ UNCHANGED << requestedFormatId, hasVideo, expectedSize, formatId, usedFallback >>
    /\ UNCHANGED execVars
    /\ UNCHANGED currentCookiePath
    /\ UNCHANGED << singleVars, callVars, cookieVars, pathVars, cancelVars, formatVars, killVars >>

\* the message of the failure response
userError(error, timeout, bot) ==
    IF timeout THEN "Download timed out. Try a lower quality format."
    ELSE IF bot THEN "YouTube blocked the request. Try again later."
    ELSE error

\* the suggestion of the failure response
suggestion(timeout, bot) ==
    IF timeout THEN "Try selecting a lower quality format (720p or below)"
    ELSE IF bot THEN "Try again in a few minutes"
    ELSE ""

\* POST after the loop: all attempts failed
R_AllFailed ==
    /\ pc = "failed"
    /\ progressStore' = updateProgress(progressStore, 0, "error")
    /\ disk' = deleteTempFile(disk, tempFile)
    /\ response' = [kind |-> "json",
                    status |-> IF lastIsBotDetection THEN 403 ELSE IF lastIsTimeout THEN 408 ELSE 500,
                    error |-> userError(lastError, lastIsTimeout, lastIsBotDetection),
                    isBotDetection |-> lastIsBotDetection,
                    isTimeout |-> lastIsTimeout,
                    suggestion |-> suggestion(lastIsTimeout, lastIsBotDetection),
                    attempt |-> Min(attempt, MAX_RETRIES),
                    format |-> ""]
    /\ pc' = "done"
    /\ UNCHANGED << attempt, requestedFormatId, hasVideo, expectedSize, formatId, lastError,
                    lastIsBotDetection, lastIsTimeout, usedFallback, tempFile, activeDownloads >>
    /\ UNCHANGED execVars
    /\ currentCookiePath' = "null"   \* the local is gone once POST has returned
    /\ UNCHANGED << singleVars, callVars, cookieVars, pathVars, cancelVars, formatVars, killVars >>

NextRetry ==
    \/ R_Begin
    \/ R_Loop
    \/ R_Spawn
    \/ R_HandleResult
    \/ R_AllFailed
    \/ \E a \in Attempts, text \in StderrChunks : StderrData(a, text)
    \/ \E a \in Attempts : StdoutData(a)
    \/ \E a \in Attempts : ConnectTimeoutFires(a)
    \/ \E a \in Attempts : OverallTimeoutFires(a)
    \/ \E a \in Attempts, size \in FileSizes : ProcWrite(a, size)
    \/ \E a \in Attempts, code \in {"0", "1", "null", "-2"}, headerReadable \in BOOLEAN :
          ProcClose(a, code, headerReadable)
    \/ \E a \in Attempts, message \in SpawnErrors : ProcError(a, message)

SpecRetry == InitRetry /\ [][NextRetry]_vars

\* ------------------------------------------- the single-attempt handler

\* the lines of diagnostic text the subprocess may print
RouteLines ==
    { "[download]   0.0% of 10.5MiB at 1.2MiB/s ETA 00:09",
      "[download]  40.0% of 10.5MiB at 1.2MiB/s ETA 00:05",
      "[download] 120.0% of 10.5MiB at 1.2MiB/s ETA 00:00",
      "[Merger] Merging formats into out.mp4",
      "ERROR: Sign in to confirm you're not a bot" }

NoProgress == [progress |-> -1, phase |-> "none"]

\* parseProgress of the single-attempt handler; NoProgress for null
parseProgress_route(line) ==
    CASE line = "[download]   0.0% of 10.5MiB at 1.2MiB/s ETA 00:09"
            -> [progress |-> 0, phase |-> "downloading"]
      [] line = "[download]  40.0% of 10.5MiB at 1.2MiB/s ETA 00:05"
            -> [progress |-> 40, phase |-> "downloading"]
      [] line = "[download] 120.0% of 10.5MiB at 1.2MiB/s ETA 00:00"
            -> [progress |-> 120, phase |-> "downloading"]
      [] line = "[Merger] Merging formats into out.mp4"
            -> [progress |-> 95, phase |-> "merging"]
      [] OTHER -> NoProgress

\* Math.round(10 + progress * 0.75) and the fixed values of the other phases
overallProgress(parsed, last) ==
    IF parsed.phase = "downloading" THEN (40 + 3 * parsed.progress + 2) \div 4
    ELSE IF parsed.phase = "extracting" THEN 88
    ELSE IF parsed.phase = "merging" THEN 92
    ELSE Max(last, parsed.progress)

\* capProgress without the cap
capProgress_none(p) == p

\* Math.min(overallProgress, 95)
capProgress(p) == Min(p, 95)

\* publishing without the comparison with lastProgress
shouldPublish_always(overall, last) == TRUE

\* if (overallProgress > lastProgress)
shouldPublish(overall, last) == overall > last

\* the record of one more updateProgress call
logPublish(log, progress, phase) ==
    [n |-> log.n + 1,
     max |-> Max(log.max, progress),
     complete |-> log.complete \/ (progress = 100 /\ phase = "complete"),
     last |-> progress,
     failed |-> log.failed \/ phase = "error"]

\* clearProgress(downloadId): the entry published to is stored under progressId
clearProgress(store, sameId) == IF sameId THEN NoEntry ELSE store

\* the message of a failed close: the first substring test that matches
closeError(output) ==
    IF output \cap {"ERROR: Sign in to confirm you're not a bot"} # {}
    THEN "YouTube blocked the request. Cookies may be expired."
    ELSE IF output \cap {"[Merger] Merging formats into out.mp4"} # {}
    THEN "Requested format not available. Try a different quality."
    ELSE "Download failed"

ResolvedS(success, error) == [resolved |-> TRUE, success |-> success, error |-> error]

\* cleanupDownload: kill, delete the temp file and the cookie file, drop the entry,
\* clear the progress stored under downloadId
cleanupDownload(st) ==
    IF st.active
    THEN [active      |-> FALSE,
          killed      |-> st.killed \/ st.proc = "running",
          file        |-> Absent,
          unlinks     |-> IF st.file # Absent THEN st.unlinks + 1 ELSE st.unlinks,
          triggered   |-> TRUE,
          cookieFile  |-> IF st.cookiePath THEN FALSE ELSE st.cookieFile,
          progress    |-> clearProgress(st.progress, st.sameId)]
    ELSE [active      |-> FALSE,
          killed      |-> st.killed,
          file        |-> st.file,
          unlinks     |-> st.unlinks,
          triggered   |-> st.triggered,
          cookieFile  |-> st.cookieFile,
          progress    |-> clearProgress(st.progress, st.sameId)]

\* the state cleanupDownload reads, with the progress entry as it is when it runs
CleanupInput(progress) ==
    [active |-> sActive, proc |-> sProc, killed |-> sKilled, file |-> sFile,
     unlinks |-> sUnlinks, triggered |-> sDeleteTriggered, cookiePath |-> sCookiePath,
     cookieFile |-> sCookieFile, progress |-> progress, sameId |-> ~hasClientId]

\* the assignments of a cleanupDownload call
Cleanup(progress) ==
    LET new == cleanupDownload(CleanupInput(progress)) IN
    /\ sActive' = new.active
    /\ sKilled' = new.killed
    /\ sFile' = new.file
    /\ sUnlinks' = new.unlinks
    /\ sDeleteTriggered' = new.triggered
    /\ sCookieFile' = new.cookieFile
    /\ sProgress' = new.progress

\* POST up to `await getCachedCookies`
S_Begin ==
    /\ spc = "start"
    /\ \E outcome \in BeginOutcomes :
        IF outcome = "ok"
        THEN /\ sProgress' = updateProgress(sProgress, 5, "preparing")
             /\ sPublished' = logPublish(sPublished, 5, "preparing")
             /\ spc' = "cookies"
             /\ UNCHANGED sResponse
        ELSE /\ sResponse' =
                    IF outcome = "rateLimited"
                    THEN [kind |-> "json", error |-> "Too many requests. Please wait a moment."]
                    ELSE IF outcome = "invalid"
                    THEN [kind |-> "json", error |-> "Invalid request parameters"]
                    ELSE catchBlock("Unexpected end of JSON input")
             /\ spc' = "done"
             /\ UNCHANGED << sProgress, sPublished >>
    /\ UNCHANGED << isAudioOnly, hasClientId, sProc, sKilled, sTimeout, sResult, sErrorOutput,
                    sLastProgress, sChunks, sExitCode, sFile, sCookiePath, sCookieFile, sActive,
                    sStream, sRead, sEnqueued, sDeleteTriggered, sUnlinks,
                    sDeletedRunning >>
    /\ UNCHANGED sCookies
    /\ UNCHANGED << retryVars, execVars, callVars, cookieVars, pathVars, cancelVars, formatVars, killVars >>

\* POST from the cookies to `await new Promise`: spawn, track, arm the timer
S_Spawn ==
    /\ spc = "cookies"
    /\ \E outcome \in CookieOutcomes, started \in BOOLEAN :
        LET path == cookiePathAfter(outcome, "null") IN
        IF path = "escaped"
        THEN \* the catch block of POST: cleanupDownload finds no entry
             /\ sProgress' = clearProgress(sProgress, ~hasClientId)
             /\ sResponse' = catchBlock("Download failed")
             /\ spc' = "done"
             /\ UNCHANGED << sCookies, sCookiePath, sCookieFile, sProc, sActive, sPublished,
                             sTimeout >>
        ELSE /\ sCookies' = path
             /\ sCookiePath' = (path # "null")
             /\ sCookieFile' = (path # "null")
             /\ sProc' = IF started THEN "running" ELSE "spawnfail"
             /\ sActive' = TRUE
             /\ sProgress' = updateProgress(sProgress, 10, "downloading")
             /\ sPublished' = logPublish(sPublished, 10, "downloading")
             /\ sTimeout' = "armed"
             /\ spc' = "await"
             /\ UNCHANGED sResponse
    /\ UNCHANGED << isAudioOnly, hasClientId, sKilled, sResult, sErrorOutput, sLastProgress,
                    sChunks, sExitCode, sFile, sStream, sRead, sEnqueued,
                    sDeleteTriggered, sUnlinks, sDeletedRunning >>
    /\ UNCHANGED << retryVars, execVars, callVars, cookieVars, pathVars, cancelVars, formatVars, killVars >>

\* proc.stderr.on('data') with a one-line chunk
S_StderrData(line) ==
    /\ sProc = "running"
    /\ sChunks < MaxLines
    /\ sChunks' = sChunks + 1
    /\ sErrorOutput' = sErrorOutput \cup {line}
    /\ LET parsed == parseProgress_route(line)
           overall == overallProgress(parsed, sLastProgress)
       IN IF parsed # NoProgress /\ shouldPublish(overall, sLastProgress)
          THEN /\ sLastProgress' = overall
               /\ sProgress' = updateProgress(sProgress, capProgress(overall), parsed.phase)
               /\ sPublished' = logPublish(sPublished, capProgress(overall), parsed.phase)
          ELSE UNCHANGED << sLastProgress, sProgress, sPublished >>
    /\ UNCHANGED << spc, isAudioOnly, hasClientId, sProc, sKilled, sTimeout, sResult, sExitCode,
                    sFile, sCookiePath, sCookieFile, sActive, sResponse, sStream, sRead,
                    sEnqueued, sDeleteTriggered, sUnlinks, sDeletedRunning >>
    /\ UNCHANGED sCookies
    /\ UNCHANGED << retryVars, execVars, callVars, cookieVars, pathVars, cancelVars, formatVars, killVars >>

\* the overall timer (DOWNLOAD_TIMEOUT) goes off
S_TimeoutFires ==
    /\ sTimeout = "armed"
    /\ sProc = "running"
    /\ sTimeout' = "fired"
    /\ sKilled' = TRUE
    /\ sResult' = resolve(sResult, ResolvedS(FALSE, "Download timed out. Try a lower quality or shorter video."))
    /\ UNCHANGED << spc, isAudioOnly, hasClientId, sProc, sErrorOutput, sLastProgress, sChunks,
                    sExitCode, sFile, sCookiePath, sCookieFile, sActive, sProgress, sPublished,
                    sResponse, sStream, sRead, sEnqueued, sDeleteTriggered, sUnlinks,
                    sDeletedRunning >>
    /\ UNCHANGED sCookies
    /\ UNCHANGED << retryVars, execVars, callVars, cookieVars, pathVars, cancelVars, formatVars, killVars >>

\* the subprocess (or a postprocessor it started) creates the output file
S_ProcWrite(size) ==
    /\ sProc = "running"
    /\ sFile = Absent
    /\ sFile' = size
    /\ UNCHANGED << spc, isAudioOnly, hasClientId, sProc, sKilled, sTimeout, sResult,
                    sErrorOutput, sLastProgress, sChunks, sExitCode, sCookiePath, sCookieFile,
                    sActive, sProgress, sPublished, sResponse, sStream, sRead, sEnqueued,
                    sDeleteTriggered, sUnlinks, sDeletedRunning >>
    /\ UNCHANGED sCookies
    /\ UNCHANGED << retryVars, execVars, callVars, cookieVars, pathVars, cancelVars, formatVars, killVars >>

\* the subprocess exits: proc.on('close').  No handler of the process runs after
\* it, so the locals of the promise's closure are dropped.
S_ProcClose(code) ==
    /\ sProc \in {"running", "errored"}
    /\ code \in CloseCodes(sProc, sKilled)
    /\ sTimeout' = clearTimeout(sTimeout)
    /\ IF code = "0"
       THEN /\ sProgress' = updateProgress(sProgress, 100, "complete")
            /\ sPublished' = logPublish(sPublished, 100, "complete")
            /\ sResult' = resolve(sResult, ResolvedS(TRUE, ""))
       ELSE /\ sResult' = resolve(sResult, ResolvedS(FALSE, closeError(sErrorOutput)))
            /\ UNCHANGED << sProgress, sPublished >>
    /\ sProc' = "exited"
    /\ sExitCode' = code
    /\ sErrorOutput' = {}
    /\ sLastProgress' = 0
    /\ sChunks' = 0
    /\ UNCHANGED << spc, isAudioOnly, hasClientId, sKilled, sFile, sCookiePath, sCookieFile,
                    sActive, sResponse, sStream, sRead, sEnqueued, sDeleteTriggered, sUnlinks,
                    sDeletedRunning >>
    /\ UNCHANGED sCookies
    /\ UNCHANGED << retryVars, execVars, callVars, cookieVars, pathVars, cancelVars, formatVars, killVars >>

\* the subprocess could not be spawned: proc.on('error')
S_ProcError ==
    /\ sProc = "spawnfail"
    /\ sProc' = "errored"
    /\ sTimeout' = clearTimeout(sTimeout)
    /\ sResult' = resolve(sResult, ResolvedS(FALSE, "Process error: spawn yt-dlp ENOENT"))
    /\ UNCHANGED << spc, isAudioOnly, hasClientId, sKilled, sErrorOutput, sLastProgress, sChunks,
                    sExitCode, sFile, sCookiePath, sCookieFile, sActive, sProgress, sPublished,
                    sResponse, sStream, sRead, sEnqueued, sDeleteTriggered, sUnlinks,
                    sDeletedRunning >>
    /\ UNCHANGED sCookies
    /\ UNCHANGED << retryVars, execVars, callVars, cookieVars, pathVars, cancelVars, formatVars, killVars >>

\* the floor of the output size
minSize(audio) == IF audio THEN MIN_AUDIO_SIZE ELSE MIN_VIDEO_SIZE

\* POST after `await new Promise`: the failure results, or the stream response
S_HandleResult ==
    /\ spc = "await"
    /\ sResult.resolved
    /\ IF ~sResult.success
       THEN /\ sPublished' = logPublish(sPublished, 0, "error")
            /\ Cleanup(updateProgress(sProgress, 0, "error"))
            /\ sResponse' = [kind |-> "json", error |-> sResult.error]
            /\ spc' = "done"
            /\ UNCHANGED sStream
       ELSE IF sFile = Absent
       THEN /\ Cleanup(sProgress)
            /\ sResponse' = [kind |-> "json", error |-> "Download failed - no output file"]
            /\ spc' = "done"
            /\ UNCHANGED << sPublished, sStream >>
       ELSE IF sFile < minSize(isAudioOnly)
       THEN /\ Cleanup(sProgress)
            /\ sResponse' = [kind |-> "json", error |-> "Downloaded file is too small or corrupted"]
            /\ spc' = "done"
            /\ UNCHANGED << sPublished, sStream >>
       ELSE /\ sStream' = "open"
            /\ sResponse' = [kind |-> "stream", error |-> ""]
            /\ spc' = "streaming"
            /\ UNCHANGED << sActive, sKilled, sFile, sUnlinks, sDeleteTriggered, sCookieFile,
                            sProgress, sPublished >>
    /\ UNCHANGED << isAudioOnly, hasClientId, sProc, sTimeout, sResult, sErrorOutput,
                    sLastProgress, sChunks, sExitCode, sCookiePath, sRead, sEnqueued,
                    sDeletedRunning >>
    /\ UNCHANGED sCookies
    /\ UNCHANGED << retryVars, execVars, callVars, cookieVars, pathVars, cancelVars, formatVars, killVars >>

\* fileStream.on('data'): an open descriptor still reads a file that was unlinked
S_StreamData ==
    /\ sStream = "open"
    /\ sRead < MaxFileChunks
    /\ sRead' = sRead + 1
    /\ sEnqueued' = sEnqueued + 1
    /\ UNCHANGED << spc, isAudioOnly, hasClientId, sProc, sKilled, sTimeout, sResult,
                    sErrorOutput, sLastProgress, sChunks, sExitCode, sFile, sCookiePath,
                    sCookieFile, sActive, sProgress, sPublished, sResponse, sStream,
                    sDeleteTriggered, sUnlinks, sDeletedRunning >>
    /\ UNCHANGED sCookies
    /\ UNCHANGED << retryVars, execVars, callVars, cookieVars, pathVars, cancelVars, formatVars, killVars >>

\* fileStream.on('end')
S_StreamEnd ==
    /\ sStream = "open"
    /\ sRead >= 1
    /\ sStream' = "ended"
    /\ sFile' = Absent
    /\ sUnlinks' = IF sFile # Absent THEN sUnlinks + 1 ELSE sUnlinks
    /\ sDeleteTriggered' = TRUE
    /\ sActive' = FALSE
    /\ spc' = "done"
    /\ UNCHANGED << isAudioOnly, hasClientId, sProc, sKilled, sTimeout, sResult, sErrorOutput,
                    sLastProgress, sChunks, sExitCode, sCookiePath, sCookieFile, sProgress,
                    sPublished, sResponse, sRead, sEnqueued, sDeletedRunning >>
    /\ UNCHANGED sCookies
    /\ UNCHANGED << retryVars, execVars, callVars, cookieVars, pathVars, cancelVars, formatVars, killVars >>

\* fileStream.on('error')
S_StreamError ==
    /\ sStream = "open"
    /\ sStream' = "errored"
    /\ Cleanup(sProgress)
    /\ spc' = "done"
    /\ UNCHANGED << isAudioOnly, hasClientId, sProc, sTimeout, sResult, sErrorOutput,
                    sLastProgress, sChunks, sExitCode, sCookiePath, sPublished, sResponse,
                    sRead, sEnqueued, sDeletedRunning >>
    /\ UNCHANGED sCookies
    /\ UNCHANGED << retryVars, execVars, callVars, cookieVars, pathVars, cancelVars, formatVars, killVars >>

\* the consumer cancels the response: cancel()
S_Cancel ==
    /\ sStream = "open"
    /\ sStream' = "destroyed"
    /\ Cleanup(sProgress)
    /\ spc' = "done"
    /\ UNCHANGED << isAudioOnly, hasClientId, sProc, sTimeout, sResult, sErrorOutput,
                    sLastProgress, sChunks, sExitCode, sCookiePath, sPublished, sResponse,
                    sRead, sEnqueued, sDeletedRunning >>
    /\ UNCHANGED sCookies
    /\ UNCHANGED << retryVars, execVars, callVars, cookieVars, pathVars, cancelVars, formatVars, killVars >>

\* DELETE ?id=downloadId for the tracked download
S_Delete ==
    /\ sActive
    /\ Cleanup(sProgress)
    /\ sDeletedRunning' = (sDeletedRunning \/ sProc = "running")
    /\ UNCHANGED << spc, isAudioOnly, hasClientId, sProc, sTimeout, sResult, sErrorOutput,
                    sLastProgress, sChunks, sExitCode, sCookiePath, sPublished, sResponse,
                    sStream, sRead, sEnqueued >>
    /\ UNCHANGED sCookies
    /\ UNCHANGED << retryVars, execVars, callVars, cookieVars, pathVars, cancelVars, formatVars, killVars >>

NextSingle ==
    \/ S_Begin
    \/ S_Spawn
    \/ \E line \in RouteLines : S_StderrData(line)
    \/ S_TimeoutFires
    \/ \E size \in RouteFileSizes : S_ProcWrite(size)
    \/ \E code \in {"0", "1", "null", "-2"} : S_ProcClose(code)
    \/ S_ProcError
    \/ S_HandleResult
    \/ S_StreamData
    \/ S_StreamEnd
    \/ S_StreamError
    \/ S_Cancel
    \/ S_Delete

SpecSingle == InitSingle /\ [][NextSingle]_vars

\* ---------------------------------------------- validateDownloadedFile call

\* the call returns
Validate ==
    /\ vResult = NoValidation
    /\ vFileSize # Absent
    /\ vResult' = validateDownloadedFile(vFileSize, vExpectedSize, vIsAudioOnly, vHeaderReadable)
    /\ UNCHANGED << vFileSize, vExpectedSize, vIsAudioOnly, vHeaderReadable >>
    /\ UNCHANGED << retryVars, execVars, singleVars, cookieVars, pathVars, cancelVars, formatVars, killVars >>

NextValidate == Validate

SpecValidate == InitValidate /\ [][NextValidate]_vars

\* ------------------------------------------------------- getCachedCookies

\* isCookiesCacheValid without the test of the age
isCookiesCacheValid_ignoringTtl(cache) == cache.isValid

\* isCookiesCacheValid
isCookiesCacheValid(cache) == cache.isValid /\ ~cache.expired

\* the callers whose fetch is in flight
Fetching == { c \in Callers : callers[c].pc = "fetching" }

\* getCachedCookies up to `await axios.get`: the cached path, or a fetch of its own
CookiesCall(c, forceRefresh) ==
    /\ callers[c].pc = "idle"
    /\ IF /\ ~forceRefresh
          /\ isCookiesCacheValid(cookiesCache)
          /\ cookiesCache.tempPath # NoPath
          /\ cookiesCache.tempPath \in cookieFiles
       THEN callers' = [callers EXCEPT ![c] = [pc |-> "done", path |-> cookiesCache.tempPath,
                                               with |-> {}, kind |-> "cache",
                                               forced |-> forceRefresh]]
       ELSE callers' = [callers EXCEPT ![c] = [pc |-> "fetching", path |-> NoPath,
                                               with |-> Fetching, kind |-> "none",
                                               forced |-> forceRefresh]]
    /\ UNCHANGED << cookiesCache, cookieFiles, cookieWrites >>
    /\ UNCHANGED << retryVars, execVars, singleVars, callVars, pathVars, cancelVars, formatVars, killVars >>

\* getCachedCookies after the fetch: the old file unlinked, a new one written and
\* cached; or, the fetch or the write having failed, createFallbackCookies, which
\* writes the fallback file or throws
CookiesReturn(c, fetch, written) ==
    /\ callers[c].pc = "fetching"
    /\ LET kept == IF fetch = "fetchFails" THEN cookieFiles
                   ELSE cookieFiles \ {cookiesCache.tempPath}
       IN IF fetch = "ok"
          THEN /\ cookieWrites' = cookieWrites + 1
               /\ callers' = [callers EXCEPT ![c].pc = "done", ![c].path = cookieWrites + 1,
                                              ![c].kind = "fresh"]
               /\ cookieFiles' = kept \cup {cookieWrites + 1}
               /\ cookiesCache' = [tempPath |-> cookieWrites + 1, isValid |-> TRUE,
                                   expired |-> FALSE]
          ELSE IF written
          THEN /\ cookieWrites' = cookieWrites + 1
               /\ callers' = [callers EXCEPT ![c].pc = "done", ![c].path = cookieWrites + 1,
                                              ![c].kind = "fallback"]
               /\ cookieFiles' = kept \cup {cookieWrites + 1}
               /\ UNCHANGED cookiesCache
          ELSE /\ callers' = [callers EXCEPT ![c].pc = "over", ![c].kind = "threw"]
               /\ cookieFiles' = kept
               /\ UNCHANGED << cookiesCache, cookieWrites >>
    /\ UNCHANGED << retryVars, execVars, singleVars, callVars, pathVars, cancelVars, formatVars, killVars >>

\* invalidateCookiesCache
invalidateCookiesCache ==
    /\ cookiesCache.isValid
    /\ cookiesCache' = [cookiesCache EXCEPT !.isValid = FALSE]
    /\ UNCHANGED << cookieFiles, cookieWrites, callers >>
    /\ UNCHANGED << retryVars, execVars, singleVars, callVars, pathVars, cancelVars, formatVars, killVars >>

\* COOKIES_CACHE_TTL has passed since lastFetch
CacheExpires ==
    /\ cookiesCache.isValid
    /\ ~cookiesCache.expired
    /\ cookiesCache' = [cookiesCache EXCEPT !.expired = TRUE]
    /\ UNCHANGED << cookieFiles, cookieWrites, callers >>
    /\ UNCHANGED << retryVars, execVars, singleVars, callVars, pathVars, cancelVars, formatVars, killVars >>

\* the attempt that was started with the path caller c was given is over
AttemptEnds(c) ==
    /\ callers[c].pc = "done"
    /\ callers' = [callers EXCEPT ![c].pc = "over"]
    /\ UNCHANGED << cookiesCache, cookieFiles, cookieWrites >>
    /\ UNCHANGED << retryVars, execVars, singleVars, callVars, pathVars, cancelVars, formatVars, killVars >>

NextCookies ==
    \/ \E c \in Callers, forceRefresh \in BOOLEAN : CookiesCall(c, forceRefresh)
    \/ \E c \in Callers, fetch \in FetchResults, written \in BOOLEAN :
          CookiesReturn(c, fetch, written)
    \/ \E c \in Callers : AttemptEnds(c)
    \/ invalidateCookiesCache
    \/ CacheExpires

SpecCookies == InitCookies /\ [][NextCookies]_vars

\* ------------------------------------------- downloads side by side, DELETE

\* POST up to `await new Promise` for download d: the cookies (the cached file
\* while it exists, else a newly fetched one; none if the call threw), the
\* spawn, the activeDownloads entry, the first progress events
D_Post(d, acquired) ==
    /\ dl[d].proc = "none"
    /\ LET path == IF ~acquired THEN NoPath
                   ELSE IF cachePath # NoPath /\ cachePath \in cookieDisk THEN cachePath
                   ELSE cachePath + 1
       IN /\ dl' = [dl EXCEPT ![d] = [NotTracked EXCEPT
                        !.active = TRUE, !.proc = "running", !.cookiePath = path,
                        !.progress = updateProgress(NoEntry, 10, "downloading")]]
          /\ cachePath' = IF acquired THEN path ELSE cachePath
          /\ cookieDisk' = IF acquired THEN cookieDisk \cup {path} ELSE cookieDisk
    /\ lastOp' = NoOp
    /\ UNCHANGED << retryVars, execVars, singleVars, callVars, cookieVars, pathVars, formatVars, killVars >>

\* the subprocess of download d creates its output file
D_Write(d, size) ==
    /\ dl[d].proc = "running"
    /\ dl[d].file = Absent
    /\ dl' = [dl EXCEPT ![d].file = size]
    /\ lastOp' = NoOp
    /\ UNCHANGED << cookieDisk, cachePath >>
    /\ UNCHANGED << retryVars, execVars, singleVars, callVars, cookieVars, pathVars, formatVars, killVars >>

\* the subprocess of download d exits
D_Close(d) ==
    /\ dl[d].proc = "running"
    /\ dl' = [dl EXCEPT ![d].proc = "exited"]
    /\ lastOp' = NoOp
    /\ UNCHANGED << cookieDisk, cachePath >>
    /\ UNCHANGED << retryVars, execVars, singleVars, callVars, cookieVars, pathVars, formatVars, killVars >>

\* DELETE ?id=...: cleanupDownload for a tracked id (the stream's cancel() makes
\* the same call), 404 otherwise
D_Delete(id) ==
    /\ IF id \in Downloads /\ dl[id].active
       THEN LET st == [active |-> TRUE, proc |-> dl[id].proc, killed |-> dl[id].killed,
                       file |-> dl[id].file, unlinks |-> dl[id].unlinks,
                       triggered |-> dl[id].triggered,
                       cookiePath |-> dl[id].cookiePath # NoPath,
                       cookieFile |-> dl[id].cookiePath \in cookieDisk,
                       progress |-> dl[id].progress, sameId |-> TRUE]
                new == cleanupDownload(st)
            IN /\ dl' = [dl EXCEPT ![id] = [@ EXCEPT
                             !.active = new.active, !.killed = new.killed, !.file = new.file,
                             !.unlinks = new.unlinks, !.triggered = new.triggered,
                             !.progress = new.progress]]
               /\ cookieDisk' = IF new.cookieFile THEN cookieDisk
                                ELSE cookieDisk \ {dl[id].cookiePath}
               /\ lastOp' = [op |-> "delete", id |-> id, found |-> TRUE]
       ELSE /\ lastOp' = [op |-> "delete", id |-> id, found |-> FALSE]
            /\ UNCHANGED << dl, cookieDisk >>
    /\ UNCHANGED cachePath
    /\ UNCHANGED << retryVars, execVars, singleVars, callVars, cookieVars, pathVars, formatVars, killVars >>

NextCancel ==
    \/ \E d \in Downloads, acquired \in BOOLEAN : D_Post(d, acquired)
    \/ \E d \in Downloads, size \in RouteFileSizes : D_Write(d, size)
    \/ \E d \in Downloads : D_Close(d)
    \/ \E id \in Downloads \cup {0} : D_Delete(id)

SpecCancel == InitCancel /\ [][NextCancel]_vars

\* ------------------------------------- single-attempt handler: -f selection

\* an alternative of a -f chain with the height of its [height<=...] filter,
\* Unbounded if it has none
Unbounded == 0

alt(expr, height) == [expr |-> expr, height |-> height]

\* quality.replace('p', '')
withoutP(quality) ==
    CASE quality = "1080p" -> "1080"
      [] quality = "720p" -> "720"
      [] quality = "480p" -> "480"
      [] quality = "bestp" -> "best"
      [] quality = "audio-only" -> "audio-only"
      [] OTHER -> quality

\* the number a height text stands for in a [height<=...] filter
heightOf(text) ==
    CASE text = "1080" -> 1080
      [] text = "720" -> 720
      [] text = "480" -> 480
      [] OTHER -> Unbounded

\* isAudioOnly of POST
audioOnly(format, quality, ext) ==
    \/ format = "audio"
    \/ quality = "audio-only"
    \/ ext \in {"mp3", "m4a"}

\* the chain for a specific format id
specificChain(format) ==
    << alt(format, Unbounded),
       alt("bestvideo[ext=mp4][vcodec^=avc1]+bestaudio[ext=m4a]", Unbounded),
       alt("bestvideo[vcodec^=avc1]+bestaudio", Unbounded),
       alt("bestvideo+bestaudio", Unbounded),
       alt("best", Unbounded) >>

\* the chain for quality 'best'
bestChain ==
    << alt("bestvideo[ext=mp4][vcodec^=avc1]+bestaudio[ext=m4a]", Unbounded),
       alt("bestvideo[vcodec^=avc1]+bestaudio[ext=m4a]", Unbounded),
       alt("bestvideo[vcodec^=avc1]+bestaudio", Unbounded),
       alt("bestvideo+bestaudio", Unbounded),
       alt("best", Unbounded) >>

\* the chain for a quality with a height
heightChain(height) ==
    << alt("bestvideo[ext=mp4][height<=H][vcodec^=avc1]+bestaudio[ext=m4a]", height),
       alt("bestvideo[height<=H][vcodec^=avc1]+bestaudio[ext=m4a]", height),
       alt("bestvideo[height<=H][vcodec^=avc1]+bestaudio", height),
       alt("bestvideo[height<=H]+bestaudio", height),
       alt("best[height<=H]", height),
       alt("best", Unbounded) >>

\* the chain when neither a format id nor a quality is given
defaultChain ==
    << alt("bestvideo[ext=mp4][height<=720][vcodec^=avc1]+bestaudio[ext=m4a]", 720),
       alt("bestvideo[height<=720][vcodec^=avc1]+bestaudio", 720),
       alt("bestvideo[height<=720]+bestaudio", 720),
       alt("best[height<=720]", 720),
       alt("best", Unbounded) >>

\* the chain for an audio download
audioChain ==
    << alt("bestaudio[ext=m4a]", Unbounded), alt("bestaudio", Unbounded),
       alt("best", Unbounded) >>

\* formatStr of POST
formatStr(format, quality) ==
    IF format # "" /\ format # "best" /\ format # "audio"
    THEN specificChain(format)
    ELSE IF quality # ""
    THEN IF withoutP(quality) = "best" \/ quality = "best"
         THEN bestChain
         ELSE heightChain(heightOf(withoutP(quality)))
    ELSE defaultChain

\* POST builds the yt-dlp arguments
BuildArgs ==
    /\ ~fArgs.chosen
    /\ fArgs' = [chosen |-> TRUE,
                 isAudioOnly |-> audioOnly(fFormat, fQuality, fExt),
                 chain |-> IF audioOnly(fFormat, fQuality, fExt)
                           THEN audioChain
                           ELSE formatStr(fFormat, fQuality)]
    /\ UNCHANGED << fFormat, fQuality, fExt >>
    /\ UNCHANGED << retryVars, execVars, singleVars, callVars, cookieVars, pathVars, cancelVars, killVars >>

NextFormat == BuildArgs

SpecFormat == InitFormat /\ [][NextFormat]_vars

\* -------------------------------------------------------- temp file names

\* the name getTempFilePath builds: dl_<Date.now()>_<random id>.<ext>
tempFileName(time, id) == << "dl", time, id >>

\* an attempt starts: getTempFilePath at the current millisecond with the id
\* Math.random gave
TakePath(a, id) ==
    /\ livePaths[a] = NoName
    /\ livePaths' = [livePaths EXCEPT ![a] = tempFileName(now, id)]
    /\ UNCHANGED now
    /\ UNCHANGED << retryVars, execVars, singleVars, callVars, cookieVars, cancelVars, formatVars, killVars >>

\* the attempt is over and its file deleted
DropPath(a) ==
    /\ livePaths[a] # NoName
    /\ livePaths' = [livePaths EXCEPT ![a] = NoName]
    /\ UNCHANGED now
    /\ UNCHANGED << retryVars, execVars, singleVars, callVars, cookieVars, cancelVars, formatVars, killVars >>

\* the clock moves to the next millisecond
Tick ==
    /\ now < MaxClock
    /\ now' = now + 1
    /\ UNCHANGED livePaths
    /\ UNCHANGED << retryVars, execVars, singleVars, callVars, cookieVars, cancelVars, formatVars, killVars >>

NextPaths ==
    \/ \E a \in Slots, id \in RandomIds : TakePath(a, id)
    \/ \E a \in Slots : DropPath(a)
    \/ Tick

SpecPaths == InitPaths /\ [][NextPaths]_vars

\* ------------------------------------------------- either handler, one request

\* one request, served from start to end by the retrying or by the
\* single-attempt handler; the parameters only the single-attempt handler reads
\* are left unset in the request the retrying handler serves
InitHandlers == InitSingle

NextHandlers ==
    \/ (spc = "start" /\ ~isAudioOnly /\ ~hasClientId /\ NextRetry)
    \/ (pc = "start" /\ NextSingle)

SpecHandlers == InitHandlers /\ [][NextHandlers]_vars

\* the steps that do happen once they can: the handler's own code runs, an armed
\* timer goes off, a spawn failure is reported, and a subprocess that was sent
\* killProcessWithTimeout's signals closes
RetryMustHappen ==
    \/ R_Begin
    \/ R_Loop
    \/ R_Spawn
    \/ R_HandleResult
    \/ R_AllFailed
    \/ \E a \in Attempts : ConnectTimeoutFires(a)
    \/ \E a \in Attempts : OverallTimeoutFires(a)
    \/ \E a \in Attempts, message \in SpawnErrors : ProcError(a, message)
    \/ \E a \in Attempts, code \in {"0", "null", "-2"}, headerReadable \in BOOLEAN :
          (killSent[a] \/ childProcess[a] = "errored") /\ ProcClose(a, code, headerReadable)

SingleMustHappen ==
    \/ S_Begin
    \/ S_Spawn
    \/ S_TimeoutFires
    \/ S_ProcError
    \/ S_HandleResult

MustHappen ==
    \/ (spc = "start" /\ ~isAudioOnly /\ ~hasClientId /\ RetryMustHappen)
    \/ (pc = "start" /\ SingleMustHappen)

SpecHandlersFair == SpecHandlers /\ WF_vars(MustHappen)

\* -------------------------------------------------- killProcessWithTimeout

\* the close listener's clearTimeout without effect
onClose_keepTimer(timer) == timer

\* the close listener's clearTimeout(timeout)
onClose(timer) == IF timer = "armed" THEN "cleared" ELSE timer

\* the executor of the promise: no pid, resolve at once; else the timer, the
\* listener and process.kill(signal), which may throw
K_Call(k, throws) ==
    /\ kPromise[k] = "none"
    /\ IF ~kPid[k]
       THEN /\ kPromise' = [kPromise EXCEPT ![k] = "resolved"]
            /\ UNCHANGED << kTimer, kListener, kEvents >>
       ELSE IF throws
       THEN /\ kTimer' = [kTimer EXCEPT ![k] = "cleared"]
            /\ kListener' = [kListener EXCEPT ![k] = TRUE]
            /\ kPromise' = [kPromise EXCEPT ![k] = "resolved"]
            /\ UNCHANGED kEvents
       ELSE /\ kTimer' = [kTimer EXCEPT ![k] = "armed"]
            /\ kListener' = [kListener EXCEPT ![k] = TRUE]
            /\ kEvents' = [kEvents EXCEPT ![k] = Append(@, kSignal[k])]
            /\ kPromise' = [kPromise EXCEPT ![k] = "pending"]
    /\ UNCHANGED << kPid, kSignal, kProc >>
    /\ UNCHANGED << retryVars, execVars, singleVars, callVars, cookieVars, pathVars, cancelVars, formatVars >>

\* the process emits 'close', of itself or because of a signal; the listener,
\* if registered, runs once
K_Close(k) ==
    /\ kProc[k] = "running"
    /\ kProc' = [kProc EXCEPT ![k] = "closed"]
    /\ kEvents' = [kEvents EXCEPT ![k] = Append(@, "close")]
    /\ IF kListener[k]
       THEN /\ kTimer' = [kTimer EXCEPT ![k] = onClose(@)]
            /\ kListener' = [kListener EXCEPT ![k] = FALSE]
            /\ kPromise' = [kPromise EXCEPT ![k] = "resolved"]
       ELSE UNCHANGED << kTimer, kListener, kPromise >>
    /\ UNCHANGED << kPid, kSignal >>
    /\ UNCHANGED << retryVars, execVars, singleVars, callVars, cookieVars, pathVars, cancelVars, formatVars >>

\* timeoutMs after the call: the timer's callback, process.kill('SIGKILL') and
\* resolve
K_TimerFires(k) ==
    /\ kTimer[k] = "armed"
    /\ kTimer' = [kTimer EXCEPT ![k] = "fired"]
    /\ kEvents' = [kEvents EXCEPT ![k] = Append(@, "SIGKILL")]
    /\ kPromise' = [kPromise EXCEPT ![k] = "resolved"]
    /\ UNCHANGED << kPid, kSignal, kProc, kListener >>
    /\ UNCHANGED << retryVars, execVars, singleVars, callVars, cookieVars, pathVars, cancelVars, formatVars >>

NextKill ==
    \/ \E k \in Kills, throws \in BOOLEAN : K_Call(k, throws)
    \/ \E k \in Kills : K_Close(k)
    \/ \E k \in Kills : K_TimerFires(k)

SpecKill == InitKill /\ [][NextKill]_vars

\* the event loop runs the callback of every timer that stays armed
SpecKillFair == SpecKill /\ \A k \in Kills : WF_vars(K_TimerFires(k))

\* ------------------------------------------------- claims: file validation

\* the floor of validateDownloadedFile for the media kind of the call
Floor == IF vIsAudioOnly THEN 512 ELSE 1024

C2_CompleteOnExitZero ==
    /\ (sExitCode = "0" /\ sTimeout # "fired")
         => (sPublished.complete /\ sResult.resolved /\ sResult.success)
    /\ (sExitCode = "none") => sPublished.max <= 95

\* a zero exit before the timer, after the diagnostic text had reported progress
C2_Witness ==
    /\ sExitCode = "0"
    /\ sTimeout = "cleared"
    /\ sPublished.n >= 4
    /\ sPublished.complete
    /\ sResult.success

\* C11: every percentage published for the request before its error event is at
\* least the percentage published just before it, whatever raw percentage the
\* diagnostic text reports.
C11_PublishedNeverDecreases ==
    [][ (sPublished'.n > sPublished.n /\ ~sPublished'.failed)
            => sPublished'.last >= sPublished.last ]_vars

\* the subprocess reported 120% and then 0%: the second line was not published
C11_Witness ==
    /\ { "[download] 120.0% of 10.5MiB at 1.2MiB/s ETA 00:00",
         "[download]   0.0% of 10.5MiB at 1.2MiB/s ETA 00:09" } \subseteq sErrorOutput
    /\ sLastProgress = 100
    /\ sPublished.n = 3
    /\ sPublished.last = 95
    /\ ~sPublished.failed

\* C15: when POST goes on after a successful attempt, an output that is missing
\* or below the floor of its media kind (1024 bytes audio-only, 10240 bytes
\* video) gives a failure response and leaves no temp file; any other output is
\* streamed.
C15_UndersizedRejected ==
    [][ (spc = "await" /\ spc' # "await" /\ sResult.success) =>
            IF sFile = Absent \/ sFile < (IF isAudioOnly THEN 1024 ELSE 10240)
            THEN sResponse'.kind = "json" /\ sFile' = Absent
            ELSE sResponse'.kind = "stream" /\ sStream' = "open" ]_vars

\* C20: the cookie file whose path the request borrowed from the credential
\* provider stays on disk, whatever the handler does.
C20_CookieFileLeftAlone ==
    sCookiePath => sCookieFile

\* C3: once the request has concluded and its subprocess has exited, no file
\* exists at the temp path.
C3_NoTempFileLeft ==
    (spc = "done" /\ sProc # "running") => sFile = Absent

\* C4: while an artifact is streamed the temp file is unlinked at most once, and
\* once its deletion has been triggered no further chunk is enqueued to the
\* response.
C4_NoChunkAfterDelete ==
    [][ /\ (sResponse.kind = "stream") => sUnlinks' <= 1
        /\ (sStream = "open" /\ sDeleteTriggered /\ sFile = Absent)
              => sEnqueued' = sEnqueued ]_vars

\* C5: a DELETE for a download whose subprocess is running signals the
\* subprocess and deletes the temp file, and from then on no updateProgress
\* call is made for the request.
C5_NoProgressAfterCancel ==
    [][ /\ (~sDeletedRunning /\ sDeletedRunning') => (sKilled' /\ sFile' = Absent)
        /\ sDeletedRunning => sPublished'.n = sPublished.n ]_vars

\* ------------------------------------------------ claims: retrying handler

\* the attempts whose subprocess was spawned
Spawned == { a \in Attempts : childProcess[a] # "none" }

\* the last attempt that ran
LastRun == CHOOSE a \in Spawned : \A b \in Spawned : b <= a

\* C1: an attempt whose subprocess closes with exit status 0 while no timer has
\* fired and whose output file exists and passes validation resolves as success,
\* and the response is then that attempt's artifact.
C1_NormalExitSucceeds ==
    \A a \in Attempts :
        normalExit[a] =>
            /\ result[a].success
            /\ pc = "done" => (response.kind = "artifact" /\ response.attempt = a)

\* C12: while the first attempt is awaited, no updateProgress call passes a
\* percentage lower than the one passed before it.
C12_AttemptProgressMonotone ==
    [][ (pc = "await" /\ pc' = "await" /\ attempt = 1)
            => progressStore'.progress >= progressStore.progress ]_vars

\* the current attempt has just closed with status 0, no timer of it went off,
\* and its output file exists
ClosedWithFile(a) ==
    /\ pc = "await"
    /\ attempt = a
    /\ childProcess[a] = "exited"
    /\ exitCode[a] = "0"
    /\ connectTimeout[a] # "fired"
    /\ timeoutController[a].timer # "fired"
    /\ disk[attemptFile[a]] # Absent

\* C14: an attempt that exited with status 0 and produced a file fails exactly
\* when the file is smaller than 1KB or its size is below 10% or above 500% of
\* the expected size; otherwise it is accepted.
C14_ValidationDecides ==
    \A a \in Attempts :
        ClosedWithFile(a) =>
            LET size == disk[attemptFile[a]] IN
            ~result[a].success <=>
                \/ size < 1024
                \/ expectedSize > 0 /\ (10 * size < expectedSize \/ size > 5 * expectedSize)

\* attempt a exited with status 0, no timer of it went off, and its output was
\* missing or rejected by validateDownloadedFile
ValidationRejected(a) ==
    /\ childProcess[a] = "exited"
    /\ exitCode[a] = "0"
    /\ ~normalExit[a]
    /\ connectTimeout[a] # "fired"
    /\ timeoutController[a].timer # "fired"

\* POST has dealt with the result of attempt a
Handled(a) == attempt > a \/ pc \in {"failed", "done"}

SpawnFailed(a) ==
    childProcess[a] = "errored" \/ (childProcess[a] = "exited" /\ exitCode[a] = "-2")

\* C17: after an attempt whose subprocess could not be spawned, no further
\* attempt is run.
C17_SpawnFailureTerminal ==
    \A a \in Attempts :
        SpawnFailed(a) => (attempt <= a /\ \A b \in Attempts : b > a => childProcess[b] = "none")

\* attempt a exited with a non-zero status and no timer of it went off
NonZeroExit(a) ==
    /\ childProcess[a] = "exited"
    /\ exitCode[a] = "1"
    /\ connectTimeout[a] # "fired"
    /\ timeoutController[a].timer # "fired"

C19_BotDetectionClassified ==
    [][ \A a \in Attempts :
          ( /\ childProcess[a] = "running"
            /\ childProcess'[a] = "exited"
            /\ "ERROR: [youtube] Sign in to confirm you're not a bot" \in errorOutput[a]
            /\ ~result[a].resolved
            /\ connectTimeout[a] # "fired"
            /\ timeoutController[a].timer # "fired" )
          => (result'[a].resolved /\ ~result'[a].success /\ result'[a].isBotDetection) ]_vars

\* C6: at most one subprocess of the request is alive at any time.
C6_OneLiveSubprocess ==
    Cardinality({ a \in Attempts : childProcess[a] = "running" }) <= 1

\* the flags that make a failure worth another attempt, as C7 names them
FlaggedRetryable(r) == r.isBotDetection \/ r.isTimeout \/ r.isNetworkIssue

\* C7: at most 3 attempts run; an attempt after a failed one runs only if that
\* failure was flagged bot-detection, timeout or network issue and fewer than 3
\* attempts have run; any other failure ends the loop at once; the failure
\* response carries the error of the last attempt that ran.
C7_RetryPolicy ==
    /\ Cardinality(Spawned) <= 3
    /\ pc \in {"cookies", "await"} => attempt <= 3
    /\ \A a \in Spawned :
        a > 1 => /\ a - 1 \in Spawned
                 /\ result[a - 1].resolved
                 /\ ~result[a - 1].success
                 /\ FlaggedRetryable(result[a - 1])
    /\ \A a \in Spawned :
        (result[a].resolved /\ ~result[a].success /\ ~FlaggedRetryable(result[a]))
            => \A b \in Attempts : b > a => childProcess[b] = "none"
    /\ (pc = "done" /\ response.kind = "json" /\ Spawned # {}) =>
        LET r == result[LastRun] IN
        /\ response.attempt = LastRun
        /\ response.isTimeout = r.isTimeout
        /\ response.isBotDetection = r.isBotDetection
        /\ response.error \in
              { r.error, "Download timed out. Try a lower quality format.",
                "YouTube blocked the request. Try again later." }
        /\ (~r.isTimeout /\ ~r.isBotDetection) => response.error = r.error

\* C7 witness: the loop ended at once after a failure of attempt 2 that carried
\* none of the three flags, and the failure response has been sent.
C7_Witness ==
    /\ pc = "done"
    /\ response.kind = "json"
    /\ Spawned = {1, 2}
    /\ FlaggedRetryable(result[1])
    /\ ~FlaggedRetryable(result[2])
    /\ response.error = "spawn yt-dlp ENOENT"

HeightCeiling(f) ==
    CASE f = "best[height<=720]" -> 720
      [] f = "best[height<=480]" -> 480
      [] f = "best[height<=360]" -> 360
      [] f = "bestaudio"         -> 0
      [] OTHER                   -> 100000

\* C9: no expression is used by two attempts, and each later attempt's expression
\* is strictly cheaper than the one before.
C9_FallbackStrictlyCheaper ==
    \A a \in Spawned, b \in Spawned :
        a < b => /\ attemptFormat[a] # attemptFormat[b]
                 /\ HeightCeiling(attemptFormat[b]) < HeightCeiling(attemptFormat[a])

\* C10: if every attempt ends in a timeout, exactly 3 attempts run (requested,
\* 720p, 480p) and the request ends with a timeout failure carrying a
\* lower-quality suggestion.
C10_AllTimeouts ==
    (pc = "done" /\ Spawned # {} /\ \A a \in Spawned : result[a].resolved /\ result[a].isTimeout) =>
        /\ Spawned = {1, 2, 3}
        /\ attemptFormat[1] = requestedFormatId
        /\ attemptFormat[2] = "best[height<=720]"
        /\ attemptFormat[3] = "best[height<=480]"
        /\ response.kind = "json"
        /\ response.isTimeout
        /\ response.status = 408
        /\ response.suggestion = "Try selecting a lower quality format (720p or below)"

\* C10 witness: three attempts, each ended by its connect timer, and the response sent.
C10_Witness ==
    /\ pc = "done"
    /\ \A a \in Attempts : connectTimeout[a] = "fired" /\ result[a].isTimeout
    /\ response.isTimeout

\* C21: in both handlers the subprocess of an attempt is spawned whatever the
\* cookie acquisition did (a file, the fallback file, or an exception), and a
\* failure response is only ever sent after every attempt up to it was spawned.
C21_CookieFailureStillSpawns ==
    /\ spc \in {"await", "streaming"} => sProc # "none"
    /\ (sResponse.kind = "json" /\ sPublished.n > 0) => sProc # "none"
    /\ pc = "await" => childProcess[attempt] # "none"
    /\ response.kind = "json" => \A a \in 1..response.attempt : childProcess[a] # "none"

\* the acquisition threw in the single-attempt handler and the subprocess runs
\* without a cookie argument
C21_Witness == spc = "await" /\ sCookies = "null" /\ ~sCookiePath /\ sProc = "running"

\* C22: once the single-attempt request has concluded after its overall timer
\* fired, the subprocess is gone: it obeyed the graceful signal or was killed
\* by force when the grace window ran out.
C22_TimeoutTerminates ==
    (sTimeout = "fired" /\ spc = "done") => sProc # "running"

\* the result the connect timer resolves with
ConnectError == "Connection timeout - server not responding"

\* C23: in the retrying handler an attempt is resolved by the connect timer only
\* while no output has arrived, and then as a timeout failure; POST answers
\* such a failure with the next attempt while attempts remain.
C23_ConnectTimer ==
    [][\A a \in Attempts :
        /\ (result'[a] # result[a] /\ result'[a].error = ConnectError) =>
              /\ ~receivedData[a]
              /\ connectTimeout[a] = "armed"
              /\ result'[a].isTimeout /\ ~result'[a].success
        /\ (pc = "await" /\ pc' # "await" /\ attempt = a /\ result[a].error = ConnectError) =>
              IF a < MAX_RETRIES
              THEN attempt' = a + 1 /\ pc' = "loop"
              ELSE pc' = "failed"]_vars

\* the second attempt runs after the first one ended by the connect timer
C23_Witness ==
    result[1].error = ConnectError /\ attempt = 2 /\ childProcess[2] = "running"

\* C24: once a single-attempt request has concluded, the progress registry
\* holds no entry under the id the request published to.
C24_ProgressCleared ==
    spc = "done" => sProgress = NoEntry

\* C25: a request either handler has finished with has a structured response:
\* the artifact, or a JSON failure carrying an error message; an exception
\* thrown inside the handler is answered by the JSON failure of its catch block.
C25_StructuredResponse ==
    /\ pc = "done" =>
          \/ response.kind = "artifact"
          \/ response.kind = "json" /\ response.error # ""
    /\ spc = "done" =>
          \/ sResponse.kind = "stream"
          \/ sResponse.kind = "json" /\ sResponse.error # ""

\* request.json() threw in the retrying handler and the catch block answered
C25_Witness == pc = "done" /\ response.status = 500 /\ response.error = "Server error"

\* C26: a single-attempt request whose download was cancelled by DELETE while
\* the subprocess ran, and whose timer never fired, gets no artifact and no
\* failure response, and no progress event of phase 'error' is published for it.
C26_CancelIsSilent ==
    (sDeletedRunning /\ sTimeout # "fired") =>
        /\ ~sPublished.failed
        /\ sResponse.kind \notin {"json", "stream"}

\* C27: in the retrying handler no two attempts are given the same temp path,
\* and once the request has concluded and every subprocess it started has
\* exited, no file is left at the temp path of any attempt.
C27_AttemptFilesGone ==
    /\ \A a, b \in Spawned : a # b => attemptFile[a] # attemptFile[b]
    /\ (pc = "done" /\ \A a \in Attempts : childProcess[a] # "running") =>
          \A a \in Spawned : disk[attemptFile[a]] = Absent

\* attempt n has published its first progress event (the one at the top of
\* the loop body)
AttemptPublished(n) ==
    n <= MAX_RETRIES /\ (attempt > n \/ (attempt = n /\ pc # "loop"))

\* C28: the stderr handler of attempt a publishes no progress event once
\* attempt a + 1 has published its first one.
C28_NoStaleProgress ==
    [][\A a \in Attempts :
        (chunks'[a] > chunks[a] /\ progressStore' # progressStore) =>
            ~AttemptPublished(a + 1)]_vars

\* C29: at most one fetch of getCachedCookies is in flight at any time, and two
\* callers whose fetches were in flight together are given the same path.
C29_SingleFlight ==
    /\ Cardinality(Fetching) <= 1
    /\ \A c, d \in Callers :
          (d \in callers[c].with /\ callers[c].pc = "done" /\ callers[d].pc = "done") =>
              callers[c].path = callers[d].path

\* C30: no two attempts that are live at the same time hold the same temp path.
C30_LivePathsDistinct ==
    \A a, b \in Slots :
        (a # b /\ livePaths[a] # NoName /\ livePaths[b] # NoName) =>
            livePaths[a] # livePaths[b]

\* C31: a DELETE (or stream cancel) for one download leaves the entry,
\* subprocess, temp file and progress of every other download as they were and
\* the cookie file an active download was handed on disk; a DELETE for an id
\* that is not tracked changes nothing.
C31_CancelAffectsOnlyItsOwn ==
    [][lastOp'.op = "delete" =>
        /\ \A r \in Downloads \ {lastOp'.id} :
              /\ dl'[r] = dl[r]
              /\ (dl[r].active /\ dl[r].cookiePath \in cookieDisk) =>
                    dl[r].cookiePath \in cookieDisk'
        /\ ~lastOp'.found => (dl' = dl /\ cookieDisk' = cookieDisk)]_vars

\* C32: the chain built for a video request of quality 'best' (no specific
\* format id) has an alternative with a height ceiling.
C32_BestHasCeiling ==
    (fArgs.chosen /\ ~fArgs.isAudioOnly /\ fQuality = "best" /\ fFormat \in {"", "best"}) =>
        \E i \in 1..Len(fArgs.chain) : fArgs.chain[i].height # Unbounded

\* C33: every request gets a response from the handler that serves it, whatever
\* the subprocess does, including printing nothing and never exiting by itself.
C33_EveryRequestAnswered ==
    <>(response.kind # "none" \/ sResponse.kind # "none")

\* the single-attempt handler has answered while the subprocess, sent SIGTERM
\* by the timer, has still not exited
C33_Witness ==
    sResponse.kind = "json" /\ sTimeout = "fired" /\ sProc = "running"

\* C34: in the retrying handler the activeDownloads entry of the request
\* refers to every subprocess of the request that is alive.
C34_LiveSubprocessTracked ==
    \A a \in Attempts : childProcess[a] = "running" => activeDownloads = a

\* C35: while the attempt started with the path a caller of getCachedCookies
\* was given is running, the file at that path is on disk.
C35_CookieFileKeptWhileUsed ==
    \A c \in Callers : callers[c].pc = "done" => callers[c].path \in cookieFiles

\* C36: if a progress event of phase 'complete' at 100 was published for a
\* single-attempt request, the response of that request is the artifact stream.
C36_CompleteOnlyWithArtifact ==
    (sPublished.complete /\ sResponse.kind # "none") => sResponse.kind = "stream"

C38_OnlyTwoFallbacksUsed ==
    /\ Spawned \subseteq 1..3
    /\ \A a \in Spawned : a > 1 =>
           /\ attemptFormat[a] = (IF a = 2 THEN "best[height<=720]" ELSE "best[height<=480]")
           /\ attemptFormat[a] \notin {fallbackFormats[3], fallbackFormats[4]}

\* C38 witness: a request for the merged best format has used up its three
\* attempts, the second with the 720p and the third with the 480p expression.
C38_Witness ==
    /\ pc = "done"
    /\ requestedFormatId = "bestvideo+bestaudio"
    /\ Spawned = {1, 2, 3}
    /\ attemptFormat[2] = fallbackFormats[1]
    /\ attemptFormat[3] = fallbackFormats[2]

\* C39: in every call of killProcessWithTimeout the graceful signal is the first
\* kill call made; SIGKILL is sent at most once, directly after the graceful
\* signal with no close of the process in between, so never after a close that
\* came within the grace window; a promise is resolved at once for a process
\* without pid or a throwing signal call, and each pending promise is
\* eventually resolved.
C39_GracefulThenKill ==
    /\ [](\A k \in Kills :
             /\ \A i \in 1..Len(kEvents[k]) :
                    kEvents[k][i] = "SIGKILL" => (i > 1 /\ kEvents[k][i - 1] = kSignal[k])
             /\ Len(SelectSeq(kEvents[k], LAMBDA e : e # "close")) <= 2
             /\ (kEvents[k] # << >> /\ kEvents[k][1] # "close") => kEvents[k][1] = kSignal[k]
             /\ (kPromise[k] = "pending") => (kTimer[k] = "armed" /\ kListener[k])
             /\ (kPromise[k] # "none" /\ ~kPid[k]) => (kPromise[k] = "resolved" /\ kEvents[k] = << >>))
    /\ \A k \in Kills : (kPromise[k] = "pending") ~> (kPromise[k] = "resolved")

\* C39 witness: one process closed within the window and got no SIGKILL, another
\* did not and got it after the graceful signal; both promises are resolved.
C39_Witness ==
    \E j, k \in Kills :
        /\ kEvents[j] = << kSignal[j], "close" >>
        /\ kTimer[j] = "cleared"
        /\ kEvents[k] = << kSignal[k], "SIGKILL", "close" >>
        /\ kPromise[j] = "resolved"
        /\ kPromise[k] = "resolved"

====
